---- MODULE Spec2Model ----
(***************************************************************************)
(* Model of the account persistence gateway (src/db.py, class NeonDB) and  *)
(* of the account refresh worker (src/tab/manageTab.py, ManageTab).        *)
(*                                                                         *)
(* Spec        : the gateway; one action per public NeonDB operation on    *)
(*               the accounts table, each action the whole method.         *)
(* SpecRefresh : one run of ManageTab.update_account_info.update_process.  *)
(***************************************************************************)
EXTENDS Integers, Sequences, FiniteSets, TLC

\* the gateway (src/db.py)
VARIABLES accounts, id_seq, used, now, exported, snapshot, tracked, last, scope

\* the refresh worker (src/tab/manageTab.py)
VARIABLES files, account_tree, selected_item, pc, accounts_to_update, idx,
          success_count, failed_count, error_messages, calls, responses,
          fetched, raised, before, outcome, notice

dbvars == <<accounts, id_seq, used, now, exported, snapshot, tracked, last, scope>>

rvars == <<files, account_tree, selected_item, pc, accounts_to_update, idx,
           success_count, failed_count, error_messages, calls, responses,
           fetched, raised, before, outcome, notice>>

\* the window around the worker: the thread of the latest mutation of the
\* account list, the wall clock, the file watcher, the durable backup
\* records and the delete thread
VARIABLES ui_mutation, wall, watcher, backup_records, deletion

\* the construction of the gateway (NeonDB.__init__), whether the worker
\* thread runs the silent update of auto_update_info, and the threads that
\* are inside update_csv_file for the same backup file
VARIABLES ctor, silent, writers

\* the threads of the background actions, the callbacks they have handed to
\* the main loop with after(0, ...), and the loading indicators
VARIABLES background

zvars == <<ctor, silent, writers, background>>

nvars == <<wall, watcher, backup_records, deletion, zvars>>

xvars == <<ui_mutation, nvars>>

xvars_but_deletion == <<ui_mutation, wall, watcher, backup_records, zvars>>

vars == <<dbvars, rvars, xvars>>

(***************************************************************************)
(* Bounds of the model.                                                    *)
(***************************************************************************)
\* Spec: values the SERIAL sequence of accounts.id may hand out, and readings
\* of the wall clock (datetime.now / CURRENT_TIMESTAMP)
MaxId == 2
MaxClock == 4
\* SpecRoundTrip: the same two cut-offs
RoundTripMaxId == 3
RoundTripMaxClock == 6
\* SpecPool: the same two cut-offs
PoolMaxId == 2
PoolMaxClock == 8

SyncMaxId == 2

SyncMaxClock == 4
\* SpecRefresh: number of backup files in env_backups
MaxFiles == 2
\* resolution of the wall clock: ticks in a second
TicksPerSecond == 2
\* SpecWatcher: last reading of the wall clock, in ticks
MaxWall == 8
\* SpecBackup: the two cut-offs of the gateway
BackupMaxId == 2
BackupMaxClock == 4
\* SpecBackup: last reading of the wall clock, in ticks
BackupMaxWall == 4

(***************************************************************************)
(* Program constants.                                                      *)
(***************************************************************************)
\* NeonDB.__init__(..., max_conn=5, ...): size of the connection pool
max_conn == 5
\* the background actions that show a loading indicator
BackgroundActions ==
  {"update_info", "switch_account", "delete_account", "reset_id", "generate",
   "register", "backup"}

\* their threads; "backup_after_register" is the backup that a successful
\* registration starts
Threads == BackgroundActions \cup {"backup_after_register"}

\* the two threads that refresh accounts: update_process of auto_update_info
\* and update_process of update_account_info
Writers == {"auto", "user"}
\* NeonDB(max_retries=3)
max_retries == 3

\* BackupFolderHandler.on_any_event: events within this many seconds of the
\* last accepted one are ignored
debounce_s == 1

\* Python None / SQL NULL
None == "<None>"
\* insert(..., return_id=True) returns None on failure; ids start at 1
NoneId == 0

(***************************************************************************)
(* The accounts table (create_accounts_table).                             *)
(***************************************************************************)
AccountFields ==
  {"domain", "email", "password", "cookies_str", "api_key", "moe_mail_url",
   "quota", "days_remaining"}

Columns == AccountFields \cup {"id", "status", "created_at", "updated_at"}

\* column DEFAULTs: SERIAL id, status 'active', CURRENT_TIMESTAMP, else NULL
ColumnDefault(c, idv, ts) ==
  CASE c = "id" -> idv
    [] c = "status" -> "active"
    [] c \in {"created_at", "updated_at"} -> ts
    [] OTHER -> None

\* NOT NULL on domain, email, password
NotNullOK(rows) ==
  \A r \in rows : r.domain # None /\ r.email # None /\ r.password # None

UniqueOK_NoCheck(rows) == TRUE

\* UNIQUE on email (id is the primary key and is never assigned by a caller)
UniqueOK(rows) ==
  \A r1 \in rows : \A r2 \in rows : r1.email = r2.email => r1.id = r2.id

\* the exception the driver raises for a statement that leaves the table as
\* rows: psycopg2.errors.NotNullViolation, UniqueViolation; "" when none
driver_error(rows) ==
  IF ~NotNullOK(rows) THEN "NotNullViolation"
  ELSE IF ~UniqueOK(rows) THEN "UniqueViolation"
  ELSE ""

\* a WHERE clause: none, "id = %s" or "email = %s"
Matches(r, cond) ==
  CASE cond.col = "*" -> TRUE
    [] cond.col = "id" -> r.id = cond.val
    [] cond.col = "email" -> r.email = cond.val

\* UPDATE ... SET data: the row with the named columns replaced
ApplySet(r, data) == [c \in Columns |-> IF c \in DOMAIN data THEN data[c] ELSE r[c]]

\* rows as a sequence, ORDER BY created_at DESC
RECURSIVE OrderByCreatedDesc(_)
OrderByCreatedDesc(rows) ==
  IF rows = {} THEN <<>>
  ELSE LET r == CHOOSE x \in rows : \A y \in rows : y.created_at <= x.created_at
       IN <<r>> \o OrderByCreatedDesc(rows \ {r})

(***************************************************************************)
(* cursor.execute(query, params) inside one transaction.  err is a driver  *)
(* exception (constraint violation); rows is the table as the statement    *)
(* leaves it; seq is the SERIAL sequence, which a failed INSERT has        *)
(* advanced all the same.                                                  *)
(***************************************************************************)
cursor_execute(stmt, rows, seq, ts) ==
  CASE stmt.kind = "insert" ->
         LET idv == seq + 1
             row == [c \in Columns |->
                       IF c \in DOMAIN stmt.data THEN stmt.data[c]
                       ELSE ColumnDefault(c, idv, ts)]
             new == rows \cup {row}
             ok  == NotNullOK(new) /\ UniqueOK(new)
         IN [err |-> ~ok, rows |-> new, seq |-> idv,
             rowcount |-> 1, fetch |-> <<row>>]
    [] stmt.kind = "update" ->
         LET hit == {r \in rows : Matches(r, stmt.cond)}
             new == (rows \ hit) \cup {ApplySet(r, stmt.data) : r \in hit}
             ok  == NotNullOK(new) /\ UniqueOK(new)
         IN [err |-> ~ok, rows |-> new, seq |-> seq,
             rowcount |-> Cardinality(hit), fetch |-> <<>>]
    [] stmt.kind = "delete" ->
         LET hit == {r \in rows : Matches(r, stmt.cond)}
         IN [err |-> FALSE, rows |-> rows \ hit, seq |-> seq,
             rowcount |-> Cardinality(hit), fetch |-> <<>>]
    [] stmt.kind = "select" ->
         LET hit == {r \in rows : Matches(r, stmt.cond)}
         IN [err |-> FALSE, rows |-> rows, seq |-> seq,
             rowcount |-> Cardinality(hit), fetch |-> OrderByCreatedDesc(hit)]

(***************************************************************************)
(* The connection pool: used is the number of connections checked out.     *)
(***************************************************************************)
\* pool.getconn() raises PoolError when every connection is checked out
PoolExhausted(db) == db.used >= max_conn

get_connection(u) == u + 1

release_connection(u) == u - 1

(***************************************************************************)
(* A gateway state: the table, the id sequence, the pool and the clock.    *)
(***************************************************************************)
DB == [rows |-> accounts, seq |-> id_seq, used |-> used, now |-> now]

execute_query_NoRollback(db, stmt) ==
  IF PoolExhausted(db)
  THEN [db |-> db, raised |-> TRUE, rowcount |-> 0, fetch |-> <<>>]
  ELSE LET u1 == get_connection(db.used)
           ts == db.now + 1
           x  == cursor_execute(stmt, db.rows, db.seq, ts)
           t1 == IF stmt.kind = "insert" THEN ts ELSE db.now
       IN [db |-> [rows |-> x.rows,
                   seq |-> x.seq,
                   used |-> release_connection(u1),
                   now |-> t1],
           raised |-> x.err,
           rowcount |-> IF x.err THEN 0 ELSE x.rowcount,
           fetch |-> IF x.err THEN <<>> ELSE x.fetch]

\* execute_query: acquire, execute, commit or roll back, release in finally.
\* raised: the exception is re-raised to the caller.
execute_query(db, stmt) ==
  IF PoolExhausted(db)
  THEN [db |-> db, raised |-> TRUE, rowcount |-> 0, fetch |-> <<>>]
  ELSE LET u1 == get_connection(db.used)
           ts == db.now + 1
           x  == cursor_execute(stmt, db.rows, db.seq, ts)
           t1 == IF stmt.kind = "insert" THEN ts ELSE db.now
       IN [db |-> [rows |-> IF x.err THEN db.rows ELSE x.rows,
                   seq |-> x.seq,
                   used |-> release_connection(u1),
                   now |-> t1],
           raised |-> x.err,
           rowcount |-> IF x.err THEN 0 ELSE x.rowcount,
           fetch |-> IF x.err THEN <<>> ELSE x.fetch]

\* the exception execute_query re-raises for stmt, "" when it returns
execute_query_error(db, stmt) ==
  IF PoolExhausted(db) THEN "PoolError"
  ELSE driver_error(cursor_execute(stmt, db.rows, db.seq, db.now + 1).rows)

\* cursor.executemany(query, params_list): the statements run one after the
\* other in the same transaction and stop at the first driver exception;
\* rows is the table inside the transaction
RECURSIVE executemany(_, _, _, _)
executemany_rest(x, rest, ts) ==
  IF x.err
  THEN [err |-> TRUE, error |-> driver_error(x.rows), rows |-> x.rows,
        seq |-> x.seq, rowcount |-> 0]
  ELSE IF rest = <<>>
       THEN [err |-> FALSE, error |-> "", rows |-> x.rows, seq |-> x.seq,
             rowcount |-> x.rowcount]
       ELSE executemany(rest, x.rows, x.seq, ts)

executemany(stmts, rows, seq, ts) ==
  executemany_rest(cursor_execute(Head(stmts), rows, seq, ts), Tail(stmts), ts)

\* execute_many after cursor.executemany: commit or roll back, release
execute_many_end(db, x, t1) ==
  [db |-> [rows |-> IF x.err THEN db.rows ELSE x.rows,
           seq |-> x.seq,
           used |-> release_connection(get_connection(db.used)),
           now |-> t1],
   raised |-> x.err,
   error |-> x.error,
   rowcount |-> IF x.err THEN 0 ELSE x.rowcount]

\* execute_many(query, params_list) for a params_list that is not empty
execute_many(db, stmts) ==
  IF PoolExhausted(db)
  THEN [db |-> db, raised |-> TRUE, error |-> "PoolError", rowcount |-> 0]
  ELSE execute_many_end(db, executemany(stmts, db.rows, db.seq, db.now + 1),
                        IF \E i \in DOMAIN stmts : stmts[i].kind = "insert"
                        THEN db.now + 1 ELSE db.now)

insert_AlwaysTrue(db, data, return_id) ==
  LET q == execute_query(db, [kind |-> "insert", data |-> data])
  IN [db |-> q.db,
      ret |-> IF return_id
              THEN (IF q.raised THEN NoneId ELSE q.fetch[1].id)
              ELSE TRUE]

\* insert(table_name='accounts', data, return_id)
insert(db, data, return_id) ==
  LET q == execute_query(db, [kind |-> "insert", data |-> data])
  IN [db |-> q.db,
      ret |-> IF return_id
              THEN (IF q.raised THEN NoneId ELSE q.fetch[1].id)
              ELSE ~q.raised]

\* update(table_name='accounts', data, condition, condition_params)
update(db, data, cond) ==
  LET q == execute_query(db, [kind |-> "update", data |-> data, cond |-> cond])
  IN [db |-> q.db, ret |-> IF q.raised THEN 0 ELSE q.rowcount]

delete_RowsLeft(db, cond) ==
  LET q == execute_query(db, [kind |-> "delete", cond |-> cond])
  IN [db |-> q.db, ret |-> IF q.raised THEN 0 ELSE Cardinality(q.db.rows)]

\* delete(table_name='accounts', condition, condition_params)
delete(db, cond) ==
  LET q == execute_query(db, [kind |-> "delete", cond |-> cond])
  IN [db |-> q.db, ret |-> IF q.raised THEN 0 ELSE q.rowcount]

\* select('accounts', ...): the rows as a sequence, <<>> for None
select(db, cond, fetch_one) ==
  LET q == execute_query(db, [kind |-> "select", cond |-> cond])
  IN [db |-> q.db,
      ret |-> IF q.raised THEN <<>>
              ELSE IF fetch_one /\ Len(q.fetch) > 1 THEN <<q.fetch[1]>>
              ELSE q.fetch]

get_account_list(db) == select(db, [col |-> "*", val |-> None], FALSE)

get_account_by_email(db, email) ==
  select(db, [col |-> "email", val |-> email], TRUE)

\* add_account(account_data): None (NoneId) on failure, else the new id
add_account(db, account_data) ==
  IF ~({"domain", "email", "password"} \subseteq DOMAIN account_data)
  THEN [db |-> db, ret |-> NoneId]
  ELSE LET t == db.now + 1
           data == [c \in DOMAIN account_data \cup {"updated_at"} |->
                      IF c = "updated_at" THEN t ELSE account_data[c]]
       IN insert([db EXCEPT !.now = t], data, TRUE)

update_account_SkipEmpty(db, account_id, update_data) ==
  LET t == db.now + 1
      given == {c \in DOMAIN update_data : update_data[c] \notin {None, ""}}
      data == [c \in given \cup {"updated_at"} |->
                 IF c = "updated_at" THEN t ELSE update_data[c]]
      db1 == [db EXCEPT !.now = t]
  IN IF PoolExhausted(db1)
     THEN [db |-> db1, ret |-> FALSE]
     ELSE LET x == cursor_execute([kind |-> "update", data |-> data,
                                   cond |-> [col |-> "id", val |-> account_id]],
                                  db1.rows, db1.seq, t)
          IN [db |-> [db1 EXCEPT !.rows = IF x.err THEN db1.rows ELSE x.rows,
                                 !.used = get_connection(db1.used)],
              ret |-> ~x.err /\ x.rowcount > 0]

\* update_account(account_id, update_data): the statement runs inside
\* "with self.get_connection() as conn", which commits or rolls back and
\* never hands the connection back to the pool.
update_account(db, account_id, update_data) ==
  LET t == db.now + 1
      data == [c \in DOMAIN update_data \cup {"updated_at"} |->
                 IF c = "updated_at" THEN t ELSE update_data[c]]
      db1 == [db EXCEPT !.now = t]
  IN IF PoolExhausted(db1)
     THEN [db |-> db1, ret |-> FALSE]
     ELSE LET x == cursor_execute([kind |-> "update", data |-> data,
                                   cond |-> [col |-> "id", val |-> account_id]],
                                  db1.rows, db1.seq, t)
          IN [db |-> [db1 EXCEPT !.rows = IF x.err THEN db1.rows ELSE x.rows,
                                 !.used = get_connection(db1.used)],
              ret |-> ~x.err /\ x.rowcount > 0]

(***************************************************************************)
(* Flat files.  A file is the sequence of <<key, value>> pairs its lines   *)
(* parse to (the CSV rows after the header, or the KEY=value lines of an   *)
(* .env file after stripping); a CSV row without a second cell has the     *)
(* value None.                                                             *)
(***************************************************************************)
NoFile == [exists |-> FALSE, rows |-> <<>>]

File(rows) == [exists |-> TRUE, rows |-> rows]

\* data[key] = value for each row in turn, then data.get(key, '')
DataGet(rows, key) ==
  LET at == {i \in 1..Len(rows) : rows[i][1] = key}
  IN IF at = {} THEN ""
     ELSE rows[CHOOSE i \in at : \A j \in at : j <= i][2]

\* Python truthiness of a str-or-None
Truthy(v) == v # None /\ v # ""

\* the account_data dict import_from_csv builds from the parsed file
ImportedAccount(rows) ==
  [domain         |-> DataGet(rows, "DOMAIN"),
   email          |-> DataGet(rows, "EMAIL"),
   password       |-> DataGet(rows, "PASSWORD"),
   cookies_str    |-> DataGet(rows, "COOKIES_STR"),
   api_key        |-> DataGet(rows, "API_KEY"),
   moe_mail_url   |-> DataGet(rows, "MOE_MAIL_URL"),
   quota          |-> DataGet(rows, "QUOTA"),
   days_remaining |-> DataGet(rows, "DAYS")]

import_from_csv_EmailOnly(db, file) ==
  IF ~file.exists THEN [db |-> db, ret |-> FALSE]
  ELSE LET account_data == ImportedAccount(file.rows)
       IN IF ~Truthy(account_data.email)
          THEN [db |-> db, ret |-> FALSE]
          ELSE LET g == get_account_by_email(db, account_data.email)
               IN IF g.ret # <<>>
                  THEN update_account(g.db, g.ret[1].id, account_data)
                  ELSE LET a == add_account(g.db, account_data)
                       IN [db |-> a.db, ret |-> a.ret # NoneId]

\* import_from_csv(csv_file_path)
import_from_csv(db, file) ==
  IF ~file.exists THEN [db |-> db, ret |-> FALSE]
  ELSE LET account_data == ImportedAccount(file.rows)
       IN IF ~Truthy(account_data.email) \/ ~Truthy(account_data.password)
          THEN [db |-> db, ret |-> FALSE]
          ELSE LET g == get_account_by_email(db, account_data.email)
               IN IF g.ret # <<>>
                  THEN update_account(g.db, g.ret[1].id, account_data)
                  ELSE LET a == add_account(g.db, account_data)
                       IN [db |-> a.db, ret |-> a.ret # NoneId]

\* the rows export_to_csv writes for one account
ExportRows(r) ==
  <<  <<"DOMAIN", r.domain>>, <<"EMAIL", r.email>>, <<"PASSWORD", r.password>> >>
  \o (IF Truthy(r.cookies_str) THEN << <<"COOKIES_STR", r.cookies_str>> >> ELSE <<>>)
  \o (IF Truthy(r.api_key) THEN << <<"API_KEY", r.api_key>> >> ELSE <<>>)
  \o (IF Truthy(r.moe_mail_url) THEN << <<"MOE_MAIL_URL", r.moe_mail_url>> >> ELSE <<>>)
  \o (IF Truthy(r.quota) THEN << <<"QUOTA", r.quota>> >> ELSE <<>>)
  \o (IF Truthy(r.days_remaining) THEN << <<"DAYS", r.days_remaining>> >> ELSE <<>>)

RECURSIVE ExportAll(_)
ExportAll(accts) ==
  IF accts = <<>> THEN <<>> ELSE ExportRows(Head(accts)) \o ExportAll(Tail(accts))

\* export_to_csv(csv_file_path): file is the file at the path afterwards
export_to_csv(db, old) ==
  LET l == get_account_list(db)
  IN IF l.ret = <<>>
     THEN [db |-> l.db, ret |-> FALSE, file |-> old]
     ELSE [db |-> l.db, ret |-> TRUE, file |-> File(ExportAll(l.ret))]

(***************************************************************************)
(* Inputs of the gateway operations.                                       *)
(***************************************************************************)
AddInputs ==
  { [domain |-> "x.com", email |-> "a@x.com", password |-> "p", quota |-> None],
    [domain |-> "y.org", email |-> "b@y.org", password |-> "q",
     cookies_str |-> "ck", quota |-> "5 / 100"],
    [email |-> "a@x.com", password |-> "p"],
    [domain |-> None, email |-> "b@y.org", password |-> "q"] }

UpdateAccountInputs ==
  { [quota |-> "5 / 100"], [email |-> "b@y.org"], [password |-> None] }

UpdateInputs == { [quota |-> "9 / 100"], [email |-> "a@x.com"] }

InsertInputs ==
  { [domain |-> "x.com", email |-> "a@x.com", password |-> "p"],
    [domain |-> "y.org", email |-> "b@y.org", password |-> "q"] }

Emails == {"a@x.com", "b@y.org"}

Ids == 1..scope.maxId

Conditions ==
  { [col |-> "id", val |-> i] : i \in Ids } \cup { [col |-> "*", val |-> None] }

InputFiles ==
  { File(<< <<"DOMAIN", "x.com">>, <<"EMAIL", "a@x.com">>, <<"PASSWORD", "p2">>,
            <<"QUOTA", "7 / 100">> >>),
    File(<< <<"EMAIL", "b@y.org">>, <<"PASSWORD", "q">> >>),
    File(<< <<"DOMAIN", "x.com">>, <<"EMAIL", "a@x.com">> >>),
    File(<< <<"DOMAIN", "x.com">>, <<"EMAIL", "">>, <<"PASSWORD", "p">> >>),
    File(<< <<"EMAIL", "a@x.com">>, <<"PASSWORD", None>> >>),
    NoFile }

(***************************************************************************)
(* The refresh worker before update_account_info is invoked.               *)
(***************************************************************************)
CallNames == {"me", "stripe", "usage"}

\* a JSON object without any member
EmptyObject == [k \in {} |-> None]

InitWorker ==
  /\ pc = "idle"
  /\ accounts_to_update = <<>>
  /\ idx = 1
  /\ success_count = 0
  /\ failed_count = 0
  /\ error_messages = <<>>
  /\ calls = [k \in CallNames |-> "none"]
  /\ responses = [k \in CallNames |-> EmptyObject]
  /\ fetched = <<>>
  /\ raised = ""
  /\ before = <<>>
  /\ outcome = <<>>
  /\ notice = <<>>

(***************************************************************************)
(* The gateway as a state machine.  last records the operation that ran    *)
(* last, its input and what it returned.  scope holds the cut-offs of the  *)
(* specification and whether it keeps the two history variables:           *)
(* snapshot, the table as the last successful export saw it, and tracked,  *)
(* the inserted dict of every account that add_account created and that    *)
(* nothing has touched since.                                              *)
(***************************************************************************)
\* the window after ManageTab.__init__ and RegisterTab.__init__: wall is the
\* wall clock in ticks, already far from the epoch
InitDesktop ==
  /\ ui_mutation = [widget |-> None, thread |-> None]
  /\ wall = debounce_s * TicksPerSecond
  /\ watcher = [last_modified |-> 0, pending |-> 0,
                burst_start |-> 0, burst_backup |-> FALSE, burst_scheduled |-> 0]
  /\ backup_records = {}
  /\ deletion = [pc |-> "idle", csv_file_path |-> None, result |-> None]
  /\ ctor = [pc |-> "built", max_retries |-> max_retries, retry_count |-> 0,
             last_error |-> None, trace |-> <<>>, pool |-> TRUE, raised |-> None]
  /\ silent = FALSE
  /\ writers = [w \in Writers |-> [pc |-> "idle", fields |-> <<>>, rows |-> <<>>]]
  /\ background = [pc |-> [a \in Threads |-> "idle"], started |-> 0,
                   queue |-> <<>>,
                   scheduled |-> [a \in Threads |-> <<>>],
                   loading |-> [a \in Threads |-> "none"]]

InitGateway ==
  /\ InitDesktop
  /\ accounts = {}
  /\ id_seq = 0
  /\ used = 0
  /\ now = 0
  /\ exported = NoFile
  /\ snapshot = {}
  /\ tracked = {}
  /\ last = [op |-> "init", arg |-> None, ret |-> None]
  /\ files = <<>>
  /\ account_tree = <<>>
  /\ selected_item = None
  /\ InitWorker

\* the accounts an operation left exactly as they were
Untouched(db) == {t \in tracked : \E r \in accounts \cap db.rows : r.id = t.id}

Commit(db, added) ==
  /\ db.seq <= scope.maxId
  /\ db.now <= scope.maxClock
  /\ accounts' = db.rows
  /\ id_seq' = db.seq
  /\ used' = db.used
  /\ now' = db.now
  /\ tracked' = IF scope.history THEN Untouched(db) \cup added ELSE tracked
  /\ UNCHANGED <<scope, rvars, xvars>>

AddAccount(d) ==
  LET r == add_account(DB, d)
  IN /\ Commit(r.db, IF r.ret # NoneId THEN {[id |-> r.ret, data |-> d]} ELSE {})
     /\ last' = [op |-> "add_account", arg |-> d, ret |-> r.ret]
     /\ UNCHANGED <<exported, snapshot>>

UpdateAccount(i, d) ==
  LET r == update_account(DB, i, d)
  IN /\ Commit(r.db, {})
     /\ last' = [op |-> "update_account", arg |-> [id |-> i, data |-> d], ret |-> r.ret]
     /\ UNCHANGED <<exported, snapshot>>

Insert(d, return_id) ==
  LET r == insert(DB, d, return_id)
  IN /\ Commit(r.db, {})
     /\ last' = [op |-> "insert", arg |-> [data |-> d, return_id |-> return_id],
                 ret |-> r.ret]
     /\ UNCHANGED <<exported, snapshot>>

Update(d, cond) ==
  LET r == update(DB, d, cond)
  IN /\ Commit(r.db, {})
     /\ last' = [op |-> "update", arg |-> [data |-> d, cond |-> cond], ret |-> r.ret]
     /\ UNCHANGED <<exported, snapshot>>

Delete(cond) ==
  LET r == delete(DB, cond)
  IN /\ Commit(r.db, {})
     /\ last' = [op |-> "delete", arg |-> cond, ret |-> r.ret]
     /\ UNCHANGED <<exported, snapshot>>

GetAccountByEmail(e) ==
  LET r == get_account_by_email(DB, e)
  IN /\ Commit(r.db, {})
     /\ last' = [op |-> "get_account_by_email", arg |-> e, ret |-> r.ret]
     /\ UNCHANGED <<exported, snapshot>>

GetAccountList ==
  LET r == get_account_list(DB)
  IN /\ Commit(r.db, {})
     /\ last' = [op |-> "get_account_list", arg |-> None, ret |-> r.ret]
     /\ UNCHANGED <<exported, snapshot>>

\* src tells the file of the last export from a file of InputFiles
ImportFromCsv(f, src) ==
  LET r == import_from_csv(DB, f)
  IN /\ Commit(r.db, {})
     /\ last' = [op |-> "import_from_csv",
                 arg |-> [file |-> f, src |-> src, empty |-> accounts = {}],
                 ret |-> r.ret]
     /\ UNCHANGED <<exported, snapshot>>

ExportToCsv ==
  LET r == export_to_csv(DB, exported)
  IN /\ Commit(r.db, {})
     /\ exported' = r.file
     /\ snapshot' = IF scope.history /\ r.ret THEN accounts ELSE snapshot
     /\ last' = [op |-> "export_to_csv", arg |-> None, ret |-> r.ret]

(***************************************************************************)
(* Spec: every operation, on every input above.                            *)
(***************************************************************************)
Init ==
  /\ InitGateway
  /\ scope = [maxId |-> MaxId, maxClock |-> MaxClock, history |-> FALSE]

Next ==
  \/ \E d \in AddInputs : AddAccount(d)
  \/ \E i \in Ids : \E d \in UpdateAccountInputs : UpdateAccount(i, d)
  \/ \E d \in InsertInputs : \E b \in BOOLEAN : Insert(d, b)
  \/ \E d \in UpdateInputs : \E c \in Conditions : Update(d, c)
  \/ \E c \in Conditions : Delete(c)
  \/ \E e \in Emails : GetAccountByEmail(e)
  \/ \E f \in InputFiles : ImportFromCsv(f, "input")

Spec == Init /\ [][Next]_vars

(***************************************************************************)
(* SpecRoundTrip: accounts are added, exported, deleted and the exported   *)
(* file is imported again.                                                 *)
(***************************************************************************)
RoundTripAddInputs ==
  { [domain |-> "x.com", email |-> "a@x.com", password |-> "p", quota |-> None],
    [domain |-> "y.org", email |-> "b@y.org", password |-> "q",
     cookies_str |-> "ck", quota |-> "5 / 100"] }

InitRoundTrip ==
  /\ InitGateway
  /\ scope = [maxId |-> RoundTripMaxId, maxClock |-> RoundTripMaxClock,
              history |-> TRUE]

NextRoundTrip ==
  \/ \E d \in RoundTripAddInputs : AddAccount(d)
  \/ \E c \in Conditions : Delete(c)
  \/ GetAccountList
  \/ ExportToCsv
  \/ ImportFromCsv(exported, "exported")

SpecRoundTrip == InitRoundTrip /\ [][NextRoundTrip]_vars

(***************************************************************************)
(* SpecPool: long runs of the operations that take connections, up to the  *)
(* exhaustion of the pool.                                                 *)
(***************************************************************************)
PoolAddInputs ==
  { [domain |-> "x.com", email |-> "a@x.com", password |-> "p", quota |-> None] }

PoolFiles ==
  { File(<< <<"DOMAIN", "x.com">>, <<"EMAIL", "a@x.com">>, <<"PASSWORD", "p2">>,
            <<"QUOTA", "7 / 100">> >>) }

InitPool ==
  /\ InitGateway
  /\ scope = [maxId |-> PoolMaxId, maxClock |-> PoolMaxClock, history |-> TRUE]

NextPool ==
  \/ \E d \in PoolAddInputs : AddAccount(d)
  \/ \E i \in Ids : UpdateAccount(i, [quota |-> "5 / 100"])
  \/ \E e \in Emails : GetAccountByEmail(e)
  \/ \E f \in PoolFiles : ImportFromCsv(f, "input")

SpecPool == InitPool /\ [][NextPool]_vars

(***************************************************************************)
(* Properties of the gateway.                                              *)
(***************************************************************************)

\* C1: every operation returns the connection it took, so that whenever no
\* operation is in progress (every state here: an action is a whole
\* operation) the number of checked-out connections is zero.
C1_NoConnectionCheckedOut == used = 0

\* a field that is neither NULL nor the empty string
Populated(v) == Truthy(v)

\* C2: exporting the stored accounts (one or several) and importing the file
\* into an empty store reproduces every populated field of every exported
\* account, and the fields empty at export come back empty.
C2_ExportImportReproducesAll ==
  (/\ last.op = "import_from_csv"
   /\ last.arg.src = "exported"
   /\ last.arg.file.exists
   /\ last.arg.empty)
  => \A a \in snapshot : \E r \in accounts : \A c \in AccountFields :
        IF Populated(a[c]) THEN r[c] = a[c] ELSE ~Populated(r[c])

\* the last operation imported an existing file with EMAIL and PASSWORD
ImportedComplete ==
  /\ last.op = "import_from_csv"
  /\ last.arg.file.exists
  /\ Truthy(ImportedAccount(last.arg.file.rows).email)
  /\ Truthy(ImportedAccount(last.arg.file.rows).password)

\* C3: an import of a file with non-empty EMAIL and PASSWORD returns success
\* and leaves exactly one account with that email, holding the file's values.
C3_ImportUpsertsAndSucceeds ==
  ImportedComplete =>
    LET a == ImportedAccount(last.arg.file.rows)
        hit == {r \in accounts : r.email = a.email}
    IN /\ last.ret = TRUE
       /\ Cardinality(hit) = 1
       /\ \A r \in hit : \A c \in AccountFields : r[c] = a[c]

\* a file in which EMAIL or PASSWORD is missing or empty
LacksEmailOrPassword(f) ==
  /\ f.exists
  /\ \/ ~Truthy(ImportedAccount(f.rows).email)
     \/ ~Truthy(ImportedAccount(f.rows).password)

\* C4: an import of a file in which EMAIL or PASSWORD is missing or empty
\* returns False and neither creates nor modifies a row.
C4_ImportWithoutEmailOrPasswordRejected ==
  [][(last'.op = "import_from_csv" /\ LacksEmailOrPassword(last'.arg.file))
       => (last'.ret = FALSE /\ accounts' = accounts)]_vars

\* C4 witness: such a file was imported while an account with its email was
\* stored, and the import returned False.
C4_Witness ==
  /\ last.op = "import_from_csv"
  /\ LacksEmailOrPassword(last.arg.file)
  /\ last.ret = FALSE
  /\ \E r \in accounts : r.email = ImportedAccount(last.arg.file.rows).email

\* C5: for every account inserted with add_account (and not touched since), a
\* lookup by its email returns a row holding the inserted values, NULL for
\* the fields that were not given.
C5_AddThenLookupRoundTrip ==
  \A t \in tracked :
    LET g == get_account_by_email(DB, t.data.email).ret
    IN /\ g # <<>>
       /\ \A c \in AccountFields :
            g[1][c] = IF c \in DOMAIN t.data THEN t.data[c] ELSE None

\* C5 witness: while an account created by add_account is stored untouched,
\* a lookup by its email has run.
C5_LookupOfTracked ==
  /\ last.op = "get_account_by_email"
  /\ \E t \in tracked : t.data.email = last.arg

\* no two rows of the accounts table have the same email
UniqueEmails ==
  \A r1 \in accounts : \A r2 \in accounts : r1.email = r2.email => r1 = r2

\* the operation recorded in l, run on the table rows, would leave two rows
\* with the same email
WouldDuplicate(l, rows) ==
  CASE l.op \in {"add_account"} ->
         "email" \in DOMAIN l.arg /\ \E r \in rows : r.email = l.arg.email
    [] l.op = "insert" ->
         \E r \in rows : r.email = l.arg.data.email
    [] l.op = "update_account" ->
         /\ "email" \in DOMAIN l.arg.data
         /\ \E r \in rows : r.id = l.arg.id
         /\ \E r \in rows : r.id # l.arg.id /\ r.email = l.arg.data.email
    [] l.op = "update" ->
         LET hit == {r \in rows : Matches(r, l.arg.cond)}
         IN /\ "email" \in DOMAIN l.arg.data
            /\ hit # {}
            /\ \/ Cardinality(hit) > 1
               \/ \E r \in rows \ hit : r.email = l.arg.data.email
    [] OTHER -> FALSE

\* the failure signal of the operation recorded in l
ReportsFailure(l) ==
  CASE l.op = "add_account" -> l.ret = NoneId
    [] l.op = "insert" -> IF l.arg.return_id THEN l.ret = NoneId ELSE l.ret = FALSE
    [] l.op \in {"update_account", "import_from_csv"} -> l.ret = FALSE
    [] l.op = "update" -> l.ret = 0
    [] OTHER -> FALSE

\* C6: no two rows of the accounts table ever have the same email, and an
\* operation that would create a duplicate email fails and leaves the table
\* unchanged.
C6_EmailUnique ==
  /\ []UniqueEmails
  /\ [][WouldDuplicate(last', accounts)
          => (ReportsFailure(last') /\ accounts' = accounts)]_vars

\* C6 witness: two accounts are stored and an update that would have given
\* both the same email has just failed.
C6_Witness ==
  /\ Cardinality(accounts) = 2
  /\ last.op \in {"update_account", "update"}
  /\ WouldDuplicate(last, accounts)
  /\ ReportsFailure(last)

\* the creation request recorded in l lacks a domain, an email or a password
LacksMandatory(l) ==
  CASE l.op = "add_account" ->
         \E c \in {"domain", "email", "password"} :
            c \notin DOMAIN l.arg \/ ~Truthy(l.arg[c])
    [] l.op = "import_from_csv" ->
         /\ l.arg.file.exists
         /\ \E c \in {"domain", "email", "password"} :
              ~Truthy(ImportedAccount(l.arg.file.rows)[c])
    [] OTHER -> FALSE

\* C7: a creation request (add_account, import_from_csv) that lacks a domain,
\* an email or a password creates no row and reports failure, so every row
\* these operations create has all three.
C7_MandatoryAtCreation ==
  [][LacksMandatory(last')
       => (ReportsFailure(last') /\ accounts' \subseteq accounts)]_vars

\* C8: every mutation of an account row refreshes its updated timestamp:
\* the row's updated timestamp grows and is afterwards strictly greater than
\* its created timestamp.
C8_MutationRefreshesUpdatedAt ==
  [][\A r \in accounts : \A m \in accounts' :
        (m.id = r.id /\ m # r)
          => (m.updated_at > r.updated_at /\ m.updated_at > m.created_at)]_vars

(***************************************************************************)
(* The refresh worker (src/tab/manageTab.py).  Strings are Python str.     *)
(***************************************************************************)
\* the sentinel for a value that is not known (the literal at
\* manageTab.py:205, 336, 340, 346)
Unknown == "unknown"

\* s.startswith(p)
StartsWith(s, p) == Len(s) >= Len(p) /\ SubSeq(s, 1, Len(p)) = p

\* the positions at which sep occurs in s
Occurrences(s, sep) ==
  {i \in 1..(Len(s) - Len(sep) + 1) : SubSeq(s, i, i + Len(sep) - 1) = sep}

\* sep in s
Contains(s, sep) == Occurrences(s, sep) # {}

\* s.split(sep)
RECURSIVE Split(_, _)
Split(s, sep) ==
  IF ~Contains(s, sep) THEN <<s>>
  ELSE LET i == CHOOSE x \in Occurrences(s, sep) :
                  \A y \in Occurrences(s, sep) : x <= y
       IN <<SubSeq(s, 1, i - 1)>> \o Split(SubSeq(s, i + Len(sep), Len(s)), sep)

\* s.split(sep)[-1]
SplitLast(s, sep) == Split(s, sep)[Len(Split(s, sep))]

\* the header line of a backup file
Header == <<"variable", "value">>

\* the defaults of parse_csv_file
ParseDefaults ==
  [DOMAIN |-> "", EMAIL |-> "", COOKIES_STR |-> "", QUOTA |-> Unknown,
   DAYS |-> Unknown, PASSWORD |-> "", API_KEY |-> "", MOE_MAIL_URL |-> ""]

\* the value a key ends up with when the rows are read in turn
LastValue(rows, key, default) ==
  LET at == {i \in 2..Len(rows) : Len(rows[i]) >= 2 /\ rows[i][1] = key}
  IN IF at = {} THEN default
     ELSE rows[CHOOSE i \in at : \A j \in at : j <= i][2]

\* parse_csv_file(csv_file): fs maps the paths of the existing files to their
\* rows; a file that cannot be read yields the defaults
parse_csv_file(fs, csv_file) ==
  IF csv_file \notin DOMAIN fs THEN ParseDefaults
  ELSE [k \in DOMAIN ParseDefaults |-> LastValue(fs[csv_file], k, ParseDefaults[k])]

SetField_LastMatch(rows, field, value) ==
  LET at == {i \in 1..Len(rows) : Len(rows[i]) >= 2 /\ rows[i][1] = field}
  IN IF at = {} THEN Append(rows, <<field, value>>)
     ELSE LET i == CHOOSE x \in at : \A y \in at : x >= y
          IN [rows EXCEPT ![i] = [rows[i] EXCEPT ![2] = value]]

\* one pass of the loop of update_csv_file over a (field, value) pair
SetField(rows, field, value) ==
  LET at == {i \in 1..Len(rows) : Len(rows[i]) >= 2 /\ rows[i][1] = field}
  IN IF at = {} THEN Append(rows, <<field, value>>)
     ELSE LET i == CHOOSE x \in at : \A y \in at : x <= y
          IN [rows EXCEPT ![i] = [rows[i] EXCEPT ![2] = value]]

\* update_csv_file(csv_file, **fields_to_update): the rows written back;
\* fields is the sequence of the keyword arguments in call order
RECURSIVE update_csv_file(_, _)
update_csv_file(rows, fields) ==
  IF fields = <<>> THEN rows
  ELSE update_csv_file(SetField(rows, Head(fields)[1], Head(fields)[2]), Tail(fields))

\* the values refresh_list shows for a file
TreeValues(account_data) ==
  [domain |-> account_data.DOMAIN, email |-> account_data.EMAIL,
   password |-> account_data.PASSWORD, quota |-> account_data.QUOTA,
   days |-> account_data.DAYS]

\* refresh_list(): one item per backup file, iid the path of the file
refresh_list(fs) == [f \in DOMAIN fs |-> TreeValues(parse_csv_file(fs, f))]

(***************************************************************************)
(* The session token.  extract_token and the base64/JSON decoding are      *)
(* library code; the payload segments in use and the JSON objects they     *)
(* encode are listed in DecodePayload.                                     *)
(***************************************************************************)
CookieName == "WorkosCursorSessionToken"

\* Utils.extract_token(cookies, "WorkosCursorSessionToken"): the token is the
\* cookie value without the cookie name and without the user-id part
extract_token(cookies, key) ==
  LET v == IF StartsWith(cookies, key \o "=")
           THEN SubSeq(cookies, Len(key) + 2, Len(cookies))
           ELSE cookies
  IN SplitLast(v, "%3A%3A")

\* json.loads(base64.b64decode(payload)) for the payload segments in use;
\* bad: the segment does not decode to a JSON object
DecodePayload(payload) ==
  CASE payload = "cGwx" -> [bad |-> FALSE, obj |-> [sub |-> "user_1"]]
    [] payload = "cGwy" -> [bad |-> FALSE, obj |-> [sub |-> "user_2"]]
    [] payload = "bm9z" -> [bad |-> FALSE, obj |-> [iss |-> "x"]]
    [] payload = "ZW1w" -> [bad |-> FALSE, obj |-> [sub |-> ""]]
    [] OTHER -> [bad |-> TRUE, obj |-> EmptyObject]

extract_user_id_from_jwt_FirstSegment(cookies) ==
  LET parts == Split(extract_token(cookies, CookieName), ".")
  IN IF Len(parts) # 3 THEN [err |-> TRUE, user_id |-> ""]
     ELSE LET d == DecodePayload(parts[1])
          IN IF d.bad \/ "sub" \notin DOMAIN d.obj \/ d.obj.sub = ""
             THEN [err |-> TRUE, user_id |-> ""]
             ELSE [err |-> FALSE, user_id |-> d.obj.sub]

\* extract_user_id_from_jwt(cookies): err when it raises ValueError
extract_user_id_from_jwt(cookies) ==
  LET parts == Split(extract_token(cookies, CookieName), ".")
  IN IF Len(parts) # 3 THEN [err |-> TRUE, user_id |-> ""]
     ELSE LET d == DecodePayload(parts[2])
          IN IF d.bad \/ "sub" \notin DOMAIN d.obj \/ d.obj.sub = ""
             THEN [err |-> TRUE, user_id |-> ""]
             ELSE [err |-> FALSE, user_id |-> d.obj.sub]

reconstructed_cookie_KeepUser(cookie_str, user_id) == cookie_str

\* the cookie update_single_account sends and stores (manageTab.py:390)
reconstructed_cookie(cookie_str, user_id) ==
  IF Contains(cookie_str, "%3A%3A")
  THEN CookieName \o "=" \o user_id \o "%3A%3A" \o SplitLast(cookie_str, "%3A%3A")
  ELSE cookie_str

\* cookie_str with the cookie name in front (manageTab.py:308-309)
with_cookie_name(cookie_str) ==
  IF StartsWith(cookie_str, CookieName \o "=") THEN cookie_str
  ELSE CookieName \o "=" \o cookie_str

\* obj.get(key, default)
Get(obj, key, default) == IF key \in DOMAIN obj THEN obj[key] ELSE default

derive_QuotaAlways(resp) ==
  LET email  == Get(resp["me"], "email", Unknown)
      domain == IF Contains(email, "@") THEN SplitLast(email, "@") ELSE Unknown
      days   == IF "daysRemainingOnTrial" \in DOMAIN resp["stripe"]
                THEN ToString(resp["stripe"].daysRemainingOnTrial)
                ELSE Unknown
      gpt4   == Get(resp["usage"], "gpt-4", EmptyObject)
      used_quota == Get(gpt4, "numRequestsTotal", 0)
      max_quota  == Get(gpt4, "maxRequestUsage", 0)
      quota  == ToString(used_quota) \o " / " \o ToString(max_quota)
  IN [domain |-> domain, email |-> email, quota |-> quota, days |-> days]

\* the tuple get_trial_usage returns from the three JSON responses
derive(resp) ==
  LET email  == Get(resp["me"], "email", Unknown)
      domain == IF Contains(email, "@") THEN SplitLast(email, "@") ELSE Unknown
      days   == IF "daysRemainingOnTrial" \in DOMAIN resp["stripe"]
                THEN ToString(resp["stripe"].daysRemainingOnTrial)
                ELSE Unknown
      gpt4   == Get(resp["usage"], "gpt-4", EmptyObject)
      used_quota == Get(gpt4, "numRequestsTotal", 0)
      max_quota  == Get(gpt4, "maxRequestUsage", 0)
      quota  == IF max_quota # 0
                THEN ToString(used_quota) \o " / " \o ToString(max_quota)
                ELSE Unknown
  IN [domain |-> domain, email |-> email, quota |-> quota, days |-> days]

futures_ok_FirstOnly(c) == c["me"] = "ok"

\* the three future.result() calls return (none of them raises)
futures_ok(c) == \A k \in CallNames : c[k] = "ok"

\* the guard of update_single_account and of get_trial_usage before the
\* requests are submitted: "" when they pass, else what is raised
precheck(cookie_str) ==
  IF cookie_str = "" THEN "no_cookie"
  ELSE LET x == extract_user_id_from_jwt(cookie_str)
       IN IF x.err THEN "jwt"
          ELSE IF extract_user_id_from_jwt(reconstructed_cookie(cookie_str, x.user_id)).err
               THEN "jwt"
               ELSE ""

\* the cookie written back to the file
stored_cookie(cookie_str) ==
  reconstructed_cookie(cookie_str, extract_user_id_from_jwt(cookie_str).user_id)

\* the Cookie header of the three requests for the COOKIES_STR of a file
\* (manageTab.py:389-392, 306-312); err: nothing is sent
sent_cookie(cookie_str) ==
  IF precheck(cookie_str) # "" THEN [err |-> TRUE, cookie |-> ""]
  ELSE [err |-> FALSE, cookie |-> with_cookie_name(stored_cookie(cookie_str))]

tally_AbortOnFailure(r, sc, fc, em, i, n, email) ==
  IF r = ""
  THEN [success_count |-> sc + 1, failed_count |-> fc, error_messages |-> em,
        idx |-> i + 1]
  ELSE [success_count |-> sc, failed_count |-> fc + 1,
        error_messages |-> Append(em, [email |-> email, error |-> r]),
        idx |-> n + 1]

\* the try/except around update_single_account in update_process: r is what
\* the call raised ("" when it returned), n the length of the batch
tally(r, sc, fc, em, i, n, email) ==
  IF r = ""
  THEN [success_count |-> sc + 1, failed_count |-> fc, error_messages |-> em,
        idx |-> i + 1]
  ELSE [success_count |-> sc, failed_count |-> fc + 1,
        error_messages |-> Append(em, [email |-> email, error |-> r]),
        idx |-> i + 1]

\* the notification update_process ends with (manageTab.py:450-458)
final_notice(sc, fc, em) ==
  IF sc > 0 /\ fc = 0 THEN [kind |-> "success", success |-> sc]
  ELSE IF sc > 0 /\ fc > 0
       THEN [kind |-> "warning", success |-> sc, failed |-> fc, details |-> em]
       ELSE [kind |-> "error", details |-> em]

(***************************************************************************)
(* Inputs of the refresh worker: the backup files that may appear in       *)
(* env_backups and the answers of the three remote endpoints.              *)
(***************************************************************************)
Path(i) == "env_backups/cursor_account_" \o ToString(i) \o ".csv"

Paths == {Path(i) : i \in 1..MaxFiles}

\* the contents a backup file may be created with
BackupRows(f) ==
  CASE f = Path(1) ->
         { <<Header, <<"DOMAIN", "x.com">>, <<"EMAIL", "a@x.com">>,
             <<"PASSWORD", "p">>,
             <<"COOKIES_STR", "WorkosCursorSessionToken=old%3A%3Ah.cGwx.s">>,
             <<"QUOTA", "1 / 50">>, <<"DAYS", "3">> >> }
    [] f = Path(2) ->
         { <<Header, <<"EMAIL", "b@y.org">>, <<"PASSWORD", "q">>,
             <<"COOKIES_STR", "h.cGwy.s">> >>,
           <<Header, <<"EMAIL", "b@y.org">>, <<"PASSWORD", "q">>,
             <<"COOKIES_STR", "h.cGwy">> >> }
    [] OTHER ->
         { <<Header, <<"EMAIL", "c@z.io">>, <<"PASSWORD", "r">> >> }

\* the JSON objects the three endpoints may answer with
Answers(k) ==
  CASE k = "me" -> { [email |-> "n@new.io"], EmptyObject }
    [] k = "stripe" -> { [daysRemainingOnTrial |-> 14] }
    [] k = "usage" ->
         { ("gpt-4" :> [numRequestsTotal |-> 5, maxRequestUsage |-> 100]) }

\* the orders in which glob may list the files of fs
Listings(fs) ==
  {q \in [1..Cardinality(DOMAIN fs) -> DOMAIN fs] :
     \A i, j \in DOMAIN q : q[i] = q[j] => i = j}

(***************************************************************************)
(* The refresh worker as a state machine: ManageTab.update_account_info.   *)
(* outcome logs, per account of the batch, how update_single_account left  *)
(* (what it raised, "" when it returned) and what it had fetched; before   *)
(* is the item and the file of the current account when its refresh began. *)
(***************************************************************************)
current == accounts_to_update[idx]

NoItem == [domain |-> "", email |-> "", password |-> "", quota |-> "", days |-> ""]

NoFetch == [domain |-> "", email |-> "", quota |-> "", days |-> ""]

\* a backup file appears in env_backups (it is not in the list yet)
CreateFile(f, rows) ==
  /\ pc = "idle"
  /\ f \notin DOMAIN files
  /\ files' = [g \in DOMAIN files \cup {f} |-> IF g = f THEN rows ELSE files[g]]
  /\ UNCHANGED <<account_tree, selected_item, pc, accounts_to_update, idx,
                 success_count, failed_count, error_messages, calls, responses,
                 fetched, raised, before, outcome, notice, dbvars, xvars>>

\* refresh_list on the UI thread: the list is rebuilt from the backup files
RefreshList ==
  /\ pc = "idle"
  /\ account_tree' = refresh_list(files)
  /\ ui_mutation' = [widget |-> "account_tree", thread |-> "ui"]
  /\ UNCHANGED <<files, selected_item, pc, accounts_to_update, idx,
                 success_count, failed_count, error_messages, calls, responses,
                 fetched, raised, before, outcome, notice, dbvars, nvars>>

\* on_select: the user selects an item or clears the selection
OnSelect(item) ==
  /\ pc = "idle"
  /\ item \in DOMAIN account_tree \cup {None}
  /\ selected_item' = item
  /\ UNCHANGED <<files, account_tree, pc, accounts_to_update, idx,
                 success_count, failed_count, error_messages, calls, responses,
                 fetched, raised, before, outcome, notice, dbvars, xvars>>

\* update_process up to the loop: the batch is the selected account, or
\* every backup file in the order glob lists them
UpdateProcessStart(listing) ==
  /\ pc = "idle"
  /\ accounts_to_update' =
       IF selected_item # None
       THEN << [file |-> selected_item,
                data |-> parse_csv_file(files, selected_item)] >>
       ELSE [i \in DOMAIN listing |->
               [file |-> listing[i], data |-> parse_csv_file(files, listing[i])]]
  /\ idx' = 1
  /\ success_count' = 0
  /\ failed_count' = 0
  /\ error_messages' = <<>>
  /\ outcome' = <<>>
  /\ notice' = <<>>
  /\ pc' = "loop"
  /\ UNCHANGED <<files, account_tree, selected_item, calls, responses,
                 fetched, raised, before, dbvars, xvars>>

\* update_single_account up to the submission of the three requests
BeginAccount ==
  /\ pc = "loop"
  /\ idx <= Len(accounts_to_update)
  /\ before' = [item |-> IF current.file \in DOMAIN account_tree
                         THEN account_tree[current.file] ELSE NoItem,
                rows |-> IF current.file \in DOMAIN files
                         THEN files[current.file] ELSE <<>>]
  /\ responses' = [k \in CallNames |-> EmptyObject]
  /\ fetched' = NoFetch
  /\ LET e == precheck(current.data.COOKIES_STR)
     IN IF e # ""
        THEN /\ raised' = e
             /\ calls' = [k \in CallNames |-> "none"]
             /\ outcome' = Append(outcome, [file |-> current.file, raised |-> e,
                                            fetched |-> NoFetch])
             /\ pc' = "tally"
        ELSE /\ calls' = [k \in CallNames |-> "pending"]
             /\ pc' = "fetch"
             /\ UNCHANGED <<raised, outcome>>
  /\ UNCHANGED <<files, account_tree, selected_item, accounts_to_update, idx,
                 success_count, failed_count, error_messages, notice, dbvars, xvars>>

\* one of the three requests completes with a JSON object
CallReturns(k, obj) ==
  /\ pc = "fetch"
  /\ calls[k] = "pending"
  /\ calls' = [calls EXCEPT ![k] = "ok"]
  /\ responses' = [responses EXCEPT ![k] = obj]
  /\ UNCHANGED <<files, account_tree, selected_item, pc, accounts_to_update,
                 idx, success_count, failed_count, error_messages, fetched,
                 raised, before, outcome, notice, dbvars, xvars>>

\* one of the three requests fails (non-2xx, network error, timeout)
CallFails(k) ==
  /\ pc = "fetch"
  /\ calls[k] = "pending"
  /\ calls' = [calls EXCEPT ![k] = "failed"]
  /\ UNCHANGED <<files, account_tree, selected_item, pc, accounts_to_update,
                 idx, success_count, failed_count, error_messages, responses,
                 fetched, raised, before, outcome, notice, dbvars, xvars>>

\* get_trial_usage leaves the "with ThreadPoolExecutor" block, which waits
\* for the three requests, and returns the tuple or raises
Collect ==
  /\ pc = "fetch"
  /\ \A k \in CallNames : calls[k] # "pending"
  /\ IF futures_ok(calls)
     THEN /\ fetched' = derive(responses)
          /\ pc' = "set_tree"
          /\ UNCHANGED <<raised, outcome>>
     ELSE /\ raised' = "remote"
          /\ outcome' = Append(outcome, [file |-> current.file,
                                         raised |-> "remote", fetched |-> NoFetch])
          /\ pc' = "tally"
          /\ UNCHANGED fetched
  /\ UNCHANGED <<files, account_tree, selected_item, accounts_to_update, idx,
                 success_count, failed_count, error_messages, calls, responses,
                 before, notice, dbvars, xvars>>

\* the five account_tree.set calls, made by the worker thread itself; set
\* raises when the item does not exist
SetTree ==
  /\ pc = "set_tree"
  /\ IF current.file \in DOMAIN account_tree
     THEN /\ account_tree' =
               [account_tree EXCEPT ![current.file] =
                  [domain |-> fetched.domain, email |-> fetched.email,
                   password |-> current.data.PASSWORD,
                   quota |-> fetched.quota, days |-> fetched.days]]
          /\ ui_mutation' = [widget |-> "account_tree", thread |-> "worker"]
          /\ pc' = "write_csv"
          /\ UNCHANGED <<raised, outcome>>
     ELSE /\ raised' = "tree"
          /\ outcome' = Append(outcome, [file |-> current.file,
                                         raised |-> "tree", fetched |-> fetched])
          /\ pc' = "tally"
          /\ UNCHANGED <<account_tree, ui_mutation>>
  /\ UNCHANGED <<files, selected_item, accounts_to_update, idx, success_count,
                 failed_count, error_messages, calls, responses, fetched,
                 before, notice, dbvars, nvars>>

\* update_csv_file and the return of update_single_account; io_ok is false
\* when reading or writing the file raises
WriteCsv(io_ok) ==
  /\ pc = "write_csv"
  /\ LET ok == io_ok /\ current.file \in DOMAIN files
         r  == IF ok THEN "" ELSE "csv"
     IN /\ files' =
             IF ok
             THEN [files EXCEPT ![current.file] =
                     update_csv_file(files[current.file],
                       << <<"DOMAIN", fetched.domain>>, <<"EMAIL", fetched.email>>,
                          <<"PASSWORD", current.data.PASSWORD>>,
                          <<"QUOTA", fetched.quota>>, <<"DAYS", fetched.days>>,
                          <<"COOKIES_STR", stored_cookie(current.data.COOKIES_STR)>> >>)]
             ELSE files
        /\ raised' = r
        /\ outcome' = Append(outcome, [file |-> current.file, raised |-> r,
                                       fetched |-> fetched])
  /\ pc' = "tally"
  /\ UNCHANGED <<account_tree, selected_item, accounts_to_update, idx,
                 success_count, failed_count, error_messages, calls, responses,
                 fetched, before, notice, dbvars, xvars>>

\* the try/except of the loop body and the step to the next account; the
\* locals of update_single_account are gone
Tally ==
  /\ pc = "tally"
  /\ LET t == tally(raised, success_count, failed_count, error_messages, idx,
                    Len(accounts_to_update), current.data.EMAIL)
     IN /\ success_count' = t.success_count
        /\ failed_count' = t.failed_count
        /\ error_messages' = t.error_messages
        /\ idx' = t.idx
  /\ raised' = ""
  /\ calls' = [k \in CallNames |-> "none"]
  /\ responses' = [k \in CallNames |-> EmptyObject]
  /\ fetched' = <<>>
  /\ before' = <<>>
  /\ pc' = "loop"
  /\ UNCHANGED <<files, account_tree, selected_item, accounts_to_update,
                 outcome, notice, dbvars, xvars>>

\* after the loop: the result is shown
Report ==
  /\ ~silent
  /\ pc = "loop"
  /\ idx > Len(accounts_to_update)
  /\ notice' = final_notice(success_count, failed_count, error_messages)
  /\ pc' = "done"
  /\ UNCHANGED <<files, account_tree, selected_item, accounts_to_update, idx,
                 success_count, failed_count, error_messages, calls, responses,
                 fetched, raised, before, outcome, dbvars, xvars>>

\* the notification is dismissed: the worker thread has ended, its locals
\* are gone and the window is idle again
Dismiss ==
  /\ pc = "done"
  /\ pc' = "idle"
  /\ accounts_to_update' = <<>>
  /\ idx' = 1
  /\ success_count' = 0
  /\ failed_count' = 0
  /\ error_messages' = <<>>
  /\ outcome' = <<>>
  /\ notice' = <<>>
  /\ UNCHANGED <<files, account_tree, selected_item, calls, responses,
                 fetched, raised, before, dbvars, xvars>>

InitRefresh ==
  /\ InitGateway
  /\ scope = [maxId |-> 0, maxClock |-> 0, history |-> FALSE]

NextRefresh ==
  \/ \E f \in Paths : \E rows \in BackupRows(f) : CreateFile(f, rows)
  \/ RefreshList
  \/ \E item \in Paths \cup {None} : OnSelect(item)
  \/ \E listing \in Listings(files) : UpdateProcessStart(listing)
  \/ BeginAccount
  \/ \E k \in CallNames : \E obj \in Answers(k) : CallReturns(k, obj)
  \/ \E k \in CallNames : CallFails(k)
  \/ Collect
  \/ SetTree
  \/ \E io_ok \in BOOLEAN : WriteCsv(io_ok)
  \/ Tally
  \/ Report
  \/ Dismiss

SpecRefresh == InitRefresh /\ [][NextRefresh]_vars

(***************************************************************************)
(* Properties of the refresh worker, checked under SpecRefresh.            *)
(***************************************************************************)
InRefresh == pc \in {"fetch", "set_tree", "write_csv", "tally"}

\* the item and the file of the current account as they are now
CurrentState ==
  [item |-> IF current.file \in DOMAIN account_tree
            THEN account_tree[current.file] ELSE NoItem,
   rows |-> IF current.file \in DOMAIN files THEN files[current.file] ELSE <<>>]

AllCallsSucceeded == \A k \in CallNames : calls[k] = "ok"

\* C9: within one account refresh, as long as any of the three remote calls
\* has not completed successfully (in whatever order they complete), the
\* account's item in the list and its file are as they were when the refresh
\* began; and once one of the calls has failed, the refresh ends by raising,
\* still with nothing written.
C9_NoWriteBeforeAllFetched ==
  /\ (InRefresh /\ ~AllCallsSucceeded) => CurrentState = before
  /\ (pc \in {"set_tree", "write_csv"}) => AllCallsSucceeded
  /\ (pc = "tally" /\ \E k \in CallNames : calls[k] = "failed")
       => (raised # "" /\ CurrentState = before)

\* C9's case: the three calls have succeeded and the refresh has written the
\* list and the file of the account.
C9_Witness ==
  /\ pc = "tally"
  /\ AllCallsSucceeded
  /\ raised = ""
  /\ CurrentState.item # before.item
  /\ CurrentState.rows # before.rows

FailedInBatch == {i \in DOMAIN outcome : outcome[i].raised # ""}

\* the list and the file of a successfully refreshed account hold what was
\* fetched for it
WritebackKept(o) ==
  /\ o.file \in DOMAIN files
  /\ o.file \in DOMAIN account_tree
  /\ LET d == parse_csv_file(files, o.file)
     IN /\ d.DOMAIN = o.fetched.domain /\ d.EMAIL = o.fetched.email
        /\ d.QUOTA = o.fetched.quota /\ d.DAYS = o.fetched.days
  /\ LET t == account_tree[o.file]
     IN /\ t.domain = o.fetched.domain /\ t.email = o.fetched.email
        /\ t.quota = o.fetched.quota /\ t.days = o.fetched.days

\* the notification agrees with sc successes, fc failures and the messages em
NoticeReports(sc, fc, em) ==
  CASE notice.kind = "success" -> fc = 0 /\ notice.success = sc
    [] notice.kind = "warning" ->
         notice.success = sc /\ notice.failed = fc /\ notice.details = em
    [] OTHER -> sc = 0 /\ notice.details = em

\* C10: when a batch of N accounts of which K failed is over, all N accounts
\* have been processed in turn, the success count is N-K and the failure
\* count K, there is one error message per failed account, in order, the
\* notification reports these, and the list and the file of every successful
\* account hold the values fetched for it.
C10_BatchCountsAndKeepsSuccesses ==
  pc = "done" =>
    LET N == Len(accounts_to_update)
        K == Cardinality(FailedInBatch)
    IN /\ Len(outcome) = N
       /\ \A i \in 1..N : outcome[i].file = accounts_to_update[i].file
       /\ success_count = N - K
       /\ failed_count = K
       /\ Len(error_messages) = K
       /\ \A i \in FailedInBatch :
            \E j \in DOMAIN error_messages :
              /\ j = Cardinality({h \in FailedInBatch : h <= i})
              /\ error_messages[j].email = accounts_to_update[i].data.EMAIL
              /\ error_messages[j].error = outcome[i].raised
       /\ NoticeReports(N - K, K, error_messages)
       /\ \A i \in DOMAIN outcome \ FailedInBatch : WritebackKept(outcome[i])

\* C10's case: a batch of two whose first account failed and whose second
\* account was then refreshed and written back.
C10_Witness ==
  /\ pc = "done"
  /\ Len(accounts_to_update) = 2
  /\ Len(outcome) = 2
  /\ outcome[1].raised # ""
  /\ outcome[2].raised = ""
  /\ success_count = 1
  /\ failed_count = 1
  /\ WritebackKept(outcome[2])

(***************************************************************************)
(* The start-up synchronisation (main.sync_accounts_to_db) followed by the *)
(* account list and its refresh worker: the backup files are imported      *)
(* into the accounts table before the window shows anything.               *)
(***************************************************************************)
\* the variable/value pairs csv.DictReader yields for a backup file
AsImportFile(rows) == File(Tail(rows))

\* one pass of the loop over the backup files in sync_accounts_to_db
SyncBackupFile(f) ==
  /\ pc = "idle"
  /\ account_tree = <<>>
  /\ selected_item = None
  /\ f \in DOMAIN files
  /\ ImportFromCsv(AsImportFile(files[f]), f)

InitSync ==
  /\ InitGateway
  /\ scope = [maxId |-> SyncMaxId, maxClock |-> SyncMaxClock, history |-> FALSE]

NextSync ==
  \/ \E f \in Paths : \E rows \in BackupRows(f) : CreateFile(f, rows)
  \/ \E f \in Paths : SyncBackupFile(f)
  \/ RefreshList
  \/ \E listing \in Listings(files) : UpdateProcessStart(listing)
  \/ BeginAccount
  \/ \E k \in CallNames : \E obj \in Answers(k) : CallReturns(k, obj)
  \/ \E k \in CallNames : CallFails(k)
  \/ Collect
  \/ SetTree
  \/ \E io_ok \in BOOLEAN : WriteCsv(io_ok)
  \/ Tally
  \/ Report
  \/ Dismiss

SpecSync == InitSync /\ [][NextSync]_vars

\* the records of the accounts table for the account being refreshed
RecordsOfCurrent == {r \in accounts : r.email = current.data.EMAIL}

\* C11: when the refresh of an account that has a record in the accounts
\* table has succeeded, that record holds the fetched domain, quota and
\* days-remaining, which are the values shown for the account in the list.
C11_GatewayHoldsFetched ==
  (pc = "tally" /\ raised = "" /\ RecordsOfCurrent # {}) =>
    \A r \in RecordsOfCurrent :
      /\ r.domain = fetched.domain
      /\ r.quota = fetched.quota
      /\ r.days_remaining = fetched.days
      /\ r.domain = account_tree[current.file].domain
      /\ r.quota = account_tree[current.file].quota
      /\ r.days_remaining = account_tree[current.file].days

\* C12: every mutation of the account list made on behalf of the refresh
\* worker or of the file watcher is executed by the UI thread (scheduled
\* with after); no background thread touches the list itself.
C12_UiMutationsOnUiThread == ui_mutation.thread # "worker"

(***************************************************************************)
(* The file watcher on env_backups (BackupFolderHandler).  Times are in    *)
(* ticks of the wall clock.  The burst_ fields of watcher are history: the *)
(* time of the first event of the current burst (an event belongs to the   *)
(* burst when it falls within the debounce window of that first event),    *)
(* whether the burst has had an event on a backup file, and how many       *)
(* callbacks were scheduled during it.                                     *)
(***************************************************************************)
Window == debounce_s * TicksPerSecond

\* s.endswith(p)
EndsWith(s, p) == Len(s) >= Len(p) /\ SubSeq(s, Len(s) - Len(p) + 1, Len(s)) = p

\* the file events watchdog may deliver
Events ==
  { [is_directory |-> TRUE,  src_path |-> "env_backups/old"],
    [is_directory |-> FALSE, src_path |-> "env_backups/notes.txt"],
    [is_directory |-> FALSE, src_path |-> Path(1)] }

\* the guard under which on_any_event schedules the callback
IsBackupFileEvent(event) == ~event.is_directory /\ EndsWith(event.src_path, ".csv")

\* on_any_event(event) at time current_time: the handler's _last_modified
\* and the number of callbacks handed to root.after and not yet run
on_any_event(w, current_time, event) ==
  IF current_time - w.last_modified < Window THEN w
  ELSE [w EXCEPT !.last_modified = current_time,
                 !.pending = IF IsBackupFileEvent(event) THEN @ + 1 ELSE @]

\* time passes
Tick ==
  /\ wall < MaxWall
  /\ wall' = wall + 1
  /\ UNCHANGED <<zvars, watcher, backup_records, deletion, ui_mutation, dbvars, rvars>>

\* watchdog delivers an event to the handler
FileEvent(event) ==
  /\ LET w == on_any_event(watcher, wall, event)
         scheduled == w.pending - watcher.pending
         same == wall - watcher.burst_start < Window
     IN watcher' =
          [w EXCEPT !.burst_start = IF same THEN @ ELSE wall,
                    !.burst_backup = (same /\ @) \/ IsBackupFileEvent(event),
                    !.burst_scheduled = (IF same THEN @ ELSE 0) + scheduled]
  /\ UNCHANGED <<zvars, wall, backup_records, deletion, ui_mutation, dbvars, rvars>>

\* the UI thread runs a callback scheduled by the watcher: refresh_list
ScheduledRefresh ==
  /\ watcher.pending > 0
  /\ watcher' = [watcher EXCEPT !.pending = @ - 1]
  /\ account_tree' = refresh_list(files)
  /\ ui_mutation' = [widget |-> "account_tree", thread |-> "ui"]
  /\ UNCHANGED <<zvars, files, selected_item, pc, accounts_to_update, idx,
                 success_count, failed_count, error_messages, calls, responses,
                 fetched, raised, before, outcome, notice, dbvars,
                 wall, backup_records, deletion>>

InitWatcher ==
  /\ InitGateway
  /\ scope = [maxId |-> 0, maxClock |-> 0, history |-> FALSE]

NextWatcher ==
  \/ Tick
  \/ \E event \in Events : FileEvent(event)
  \/ ScheduledRefresh

SpecWatcher == InitWatcher /\ [][NextWatcher]_vars

\* C13: a burst of file events within the debounce window that contains an
\* event on a backup file has exactly one refresh callback scheduled, never
\* none and never more than one, whatever other events it contains.
C13_OneRefreshPerBurst == watcher.burst_backup => watcher.burst_scheduled = 1

(***************************************************************************)
(* The manual backup (RegisterTab.backup_account.backup_thread).           *)
(***************************************************************************)
\* the methods of class NeonDB
NeonDBMethods ==
  {"get_connection", "release_connection", "close_all", "execute_query",
   "execute_many", "create_table", "insert", "update", "delete", "select",
   "table_exists", "get_columns", "create_accounts_table", "init_database",
   "add_account", "get_account_list", "get_account_by_email",
   "import_from_csv", "export_to_csv", "update_account"}

\* datetime.now().strftime("%Y%m%d_%H%M%S"): the wall clock to the second
Timestamp(t) == t \div TicksPerSecond

\* backup_data of an account row, in the order of the dict
BackupData(account) ==
  << <<"DOMAIN", account.domain>>, <<"EMAIL", account.email>>,
     <<"PASSWORD", account.password>>, <<"COOKIES_STR", account.cookies_str>>,
     <<"API_KEY", account.api_key>>, <<"MOE_MAIL_URL", account.moe_mail_url>>,
     <<"QUOTA", account.quota>>, <<"DAYS", account.days_remaining>> >>

\* the lines backup_thread writes: the header, then "key,value" for every
\* truthy value
RECURSIVE TruthyPairs(_)
TruthyPairs(pairs) ==
  IF pairs = <<>> THEN <<>>
  ELSE (IF Truthy(Head(pairs)[2]) THEN <<Head(pairs)>> ELSE <<>>)
       \o TruthyPairs(Tail(pairs))

BackupLines(account) == <<Header>> \o TruthyPairs(BackupData(account))

\* fs with the file at path holding rows
WriteFile(fs, path, rows) ==
  [g \in DOMAIN fs \cup {path} |-> IF g = path THEN rows ELSE fs[g]]

\* what is in env_backups after the with-block that writes the file.
\* io: "ok", "open" (open raises, nothing is touched) or "write" (a write
\* raises after open has truncated the file and n lines went out).
backup_files(fs, path, lines, io, n) ==
  CASE io = "open" -> fs
    [] io = "write" -> WriteFile(fs, path, SubSeq(lines, 1, n))
    [] OTHER -> WriteFile(fs, path, lines)

\* self.db.backup_account(...) raises AttributeError unless NeonDB has it
backup_recorded(io) == io = "ok" /\ "backup_account" \in NeonDBMethods

\* backup_thread from the point where the account has been found.
\* ok: the thread ends with show_success, else with show_error.
backup_found(db, fs, records, account, path, io, n) ==
  [db |-> db,
   files |-> backup_files(fs, path, BackupLines(account), io, n),
   records |-> IF backup_recorded(io)
               THEN records \cup {[account_id |-> account.id,
                                   backup_data |-> BackupLines(account),
                                   backup_type |-> "manual"]}
               ELSE records,
   ok |-> backup_recorded(io),
   path |-> path]

\* backup_thread raising before it touches anything
backup_nothing(db, fs, records) ==
  [db |-> db, files |-> fs, records |-> records, ok |-> FALSE, path |-> None]

\* backup_thread after get_account_by_email has answered g
backup_lookup(g, fs, records, t, io, n) ==
  IF g.ret = <<>> THEN backup_nothing(g.db, fs, records)
  ELSE backup_found(g.db, fs, records, g.ret[1], Path(Timestamp(t)), io, n)

\* backup_thread with EMAIL = email in the environment, run at time t
backup_account(db, fs, records, email, t, io, n) ==
  IF ~Truthy(email) THEN backup_nothing(db, fs, records)
  ELSE backup_lookup(get_account_by_email(db, email), fs, records, t, io, n)

\* the account get_account_by_email would find for email
Stored(email) == {r \in accounts : r.email = email}

\* the state after a backup of input arg that ended as r
AfterBackup(r, arg) ==
  /\ accounts' = r.db.rows
  /\ id_seq' = r.db.seq
  /\ used' = r.db.used
  /\ now' = r.db.now
  /\ files' = r.files
  /\ backup_records' = r.records
  /\ last' = [op |-> "backup_account", arg |-> arg,
              ret |-> [ok |-> r.ok, path |-> r.path]]

BackupAccount(email, io, n) ==
  /\ AfterBackup(backup_account(DB, files, backup_records, email, wall, io, n),
                 [email |-> email, io |-> io, stored |-> Stored(email),
                  reachable |-> ~PoolExhausted(DB)])
  /\ UNCHANGED <<zvars, exported, snapshot, tracked, scope, account_tree,
                 selected_item, pc, accounts_to_update, idx, success_count,
                 failed_count, error_messages, calls, responses, fetched,
                 raised, before, outcome, notice, ui_mutation, wall,
                 watcher, deletion>>

BackupAddInputs ==
  { [domain |-> "x.com", email |-> "a@x.com", password |-> "p",
     cookies_str |-> "h.cGwx.s", quota |-> None],
    [domain |-> "y.org", email |-> "b@y.org", password |-> "q"] }

InitBackup ==
  /\ InitGateway
  /\ scope = [maxId |-> BackupMaxId, maxClock |-> BackupMaxClock,
              history |-> FALSE]

NextBackup ==
  \/ \E d \in BackupAddInputs : AddAccount(d)
  \/ UpdateAccount(1, [quota |-> "5 / 100"])
  \/ (wall < BackupMaxWall /\ Tick)
  \/ \E email \in {"", "a@x.com", "b@y.org"} :
       \E io \in {"ok", "open", "write"} : \E n \in 0..1 :
         BackupAccount(email, io, n)

SpecBackup == InitBackup /\ [][NextBackup]_vars

\* every populated (truthy) field of the account is a line of the file
HoldsPopulatedFields(rows, account) ==
  \A i \in DOMAIN BackupData(account) :
    Truthy(BackupData(account)[i][2]) =>
      \E j \in DOMAIN rows : rows[j] = BackupData(account)[i]

\* C14: a manual backup of an account that exists in storage (the store
\* being reachable and the file system working) writes the timestamped
\* backup file with every populated field of the account, appends a backup
\* record keyed to the account's id, and reports success.
C14_ManualBackupSucceeds ==
  (/\ last.op = "backup_account"
   /\ last.arg.stored # {}
   /\ last.arg.reachable
   /\ last.arg.io = "ok") =>
    /\ last.ret.ok
    /\ last.ret.path \in DOMAIN files
    /\ \A a \in last.arg.stored :
         /\ HoldsPopulatedFields(files[last.ret.path], a)
         /\ \E rec \in backup_records : rec.account_id = a.id

\* C15: a manual backup that fails leaves every backup file that existed
\* before the attempt as it was, also when another backup was made within
\* the same second.
C15_FailedBackupKeepsFiles ==
  [][(last'.op = "backup_account" /\ ~last'.ret.ok) =>
       \A f \in DOMAIN files : f \in DOMAIN files' /\ files'[f] = files[f]]_vars

(***************************************************************************)
(* Deleting the selected account (ManageTab.delete_account).  deletion is  *)
(* the delete thread: where it is, the path it was started with and how    *)
(* it ended.                                                               *)
(***************************************************************************)
\* get_selected_account(): TRUE when it returns, FALSE when it raises
selected_account_ok(fs, tree, item) ==
  /\ item # None
  /\ item \in DOMAIN tree
  /\ LET account_data == parse_csv_file(fs, item)
     IN /\ account_data.EMAIL # ""
        /\ account_data.PASSWORD # ""
        /\ account_data.COOKIES_STR # ""

\* delete_account on the UI thread: the selected account is looked up, the
\* user answers the confirmation and, on yes, the delete thread is started
DeleteStart(confirmed) ==
  /\ deletion.pc = "idle"
  /\ selected_account_ok(files, account_tree, selected_item)
  /\ confirmed
  /\ deletion' = [pc |-> "remove", csv_file_path |-> selected_item,
                  result |-> None]
  /\ UNCHANGED <<zvars, ui_mutation, wall, watcher, backup_records, dbvars, rvars>>

\* process_delete: os.remove(csv_file_path)
DeleteRemove ==
  /\ deletion.pc = "remove"
  /\ IF deletion.csv_file_path \in DOMAIN files
     THEN /\ files' = [f \in DOMAIN files \ {deletion.csv_file_path} |-> files[f]]
          /\ deletion' = [deletion EXCEPT !.pc = "row"]
     ELSE /\ deletion' = [deletion EXCEPT !.pc = "done", !.result = "error"]
          /\ UNCHANGED files
  /\ UNCHANGED <<account_tree, selected_item, pc, accounts_to_update, idx,
                 success_count, failed_count, error_messages, calls, responses,
                 fetched, raised, before, outcome, notice, dbvars, xvars_but_deletion>>

\* process_delete: self.account_tree.delete(self.selected_item), called by
\* the delete thread with the selection as it is now, then show_success;
\* delete raises when there is no such item
DeleteRow ==
  /\ deletion.pc = "row"
  /\ IF selected_item \in DOMAIN account_tree
     THEN /\ account_tree' =
               [f \in DOMAIN account_tree \ {selected_item} |-> account_tree[f]]
          /\ ui_mutation' = [widget |-> "account_tree", thread |-> "worker"]
          /\ deletion' = [deletion EXCEPT !.pc = "done", !.result = "success"]
     ELSE /\ deletion' = [deletion EXCEPT !.pc = "done", !.result = "error"]
          /\ UNCHANGED <<account_tree, ui_mutation>>
  /\ UNCHANGED <<zvars, files, selected_item, pc, accounts_to_update, idx,
                 success_count, failed_count, error_messages, calls, responses,
                 fetched, raised, before, outcome, notice, dbvars,
                 wall, watcher, backup_records>>

\* the notification is dismissed
DeleteDismiss ==
  /\ deletion.pc = "done"
  /\ deletion' = [pc |-> "idle", csv_file_path |-> None, result |-> None]
  /\ UNCHANGED <<zvars, ui_mutation, wall, watcher, backup_records, dbvars, rvars>>

InitDelete ==
  /\ InitGateway
  /\ scope = [maxId |-> 0, maxClock |-> 0, history |-> FALSE]

NextDelete ==
  \/ /\ deletion.pc = "idle"
     /\ \E f \in Paths : \E rows \in BackupRows(f) : CreateFile(f, rows)
  \/ RefreshList
  \/ \E item \in Paths \cup {None} : OnSelect(item)
  \/ \E confirmed \in BOOLEAN : DeleteStart(confirmed)
  \/ DeleteRemove
  \/ DeleteRow
  \/ DeleteDismiss

SpecDelete == InitDelete /\ [][NextDelete]_vars

\* C16: when a confirmed delete of the selected account completes, the
\* backup file of that account is gone, the list no longer has the row of
\* that file and no other row has been removed, however selection changes
\* and list refreshes interleave with the delete.
C16_DeleteRemovesOnlyThatRow ==
  [][(deletion.pc # "done" /\ deletion'.pc = "done"
      /\ deletion'.result = "success") =>
       /\ deletion.csv_file_path \notin DOMAIN files'
       /\ deletion.csv_file_path \notin DOMAIN account_tree'
       /\ (DOMAIN account_tree \ DOMAIN account_tree')
            \subseteq {deletion.csv_file_path}]_vars

(***************************************************************************)
(* The token and cookie functions of the refresh worker on their own:      *)
(* SpecToken applies them to cookies built from JWT segments.              *)
(***************************************************************************)
\* the segments a token is built from, each with the JSON object its text
\* is the base64 encoding of (NoJson: the text encodes no JSON object)
NoJson == [bad |-> TRUE]

Segments ==
  { [text |-> "",     json |-> NoJson],
    [text |-> "h",    json |-> NoJson],
    [text |-> "cGwx", json |-> [sub |-> "user_1"]],
    [text |-> "bm9z", json |-> [iss |-> "x"]],
    [text |-> "ZW1w", json |-> [sub |-> ""]] }

\* the longest token, in segments
MaxSegments == 4

\* sep.join(the texts of segs)
RECURSIVE Join(_, _)
Join(segs, sep) ==
  IF Len(segs) = 1 THEN segs[1].text
  ELSE segs[1].text \o sep \o Join(Tail(segs), sep)

\* the shapes of COOKIES_STR a backup file can hold: the bare token, the
\* token behind a user id, and either behind the cookie name
CookieForms == {"token", "user", "named", "full"}

CookieOf(form, token) ==
  CASE form = "token" -> token
    [] form = "user"  -> "old" \o "%3A%3A" \o token
    [] form = "named" -> CookieName \o "=" \o token
    [] form = "full"  -> CookieName \o "=" \o "old" \o "%3A%3A" \o token

TokenInputs == UNION { [1..n -> Segments] : n \in 1..MaxSegments }

TokenArg(form, segs) ==
  [cookies |-> CookieOf(form, Join(segs, ".")), form |-> form, segments |-> segs]

\* a cookie string is handed to the tab
TokenInput(form, segs) ==
  /\ last.op = "init"
  /\ last' = [op |-> "input", arg |-> TokenArg(form, segs), ret |-> None]
  /\ UNCHANGED <<accounts, id_seq, used, now, exported, snapshot, tracked,
                 scope, rvars, xvars>>

\* self.extract_user_id_from_jwt(cookies)
ExtractUserId ==
  /\ last.op = "input"
  /\ last' = [op |-> "extract_user_id_from_jwt",
              arg |-> last.arg,
              ret |-> extract_user_id_from_jwt(last.arg.cookies)]
  /\ UNCHANGED <<accounts, id_seq, used, now, exported, snapshot, tracked,
                 scope, rvars, xvars>>

\* update_single_account up to the Cookie header of the requests
NormaliseCookie ==
  /\ last.op = "input"
  /\ last' = [op |-> "sent_cookie", arg |-> last.arg,
              ret |-> sent_cookie(last.arg.cookies)]
  /\ UNCHANGED <<accounts, id_seq, used, now, exported, snapshot, tracked,
                 scope, rvars, xvars>>

InitToken ==
  /\ InitGateway
  /\ scope = [maxId |-> 0, maxClock |-> 0, history |-> FALSE]

NextToken ==
  \/ \E form \in CookieForms, segs \in TokenInputs : TokenInput(form, segs)
  \/ ExtractUserId
  \/ NormaliseCookie

SpecToken == InitToken /\ [][NextToken]_vars

\* the subject the middle segment of a three-segment token carries, "" when
\* it carries none
SubjectOf(segs) ==
  IF Len(segs) = 3 /\ "sub" \in DOMAIN segs[2].json THEN segs[2].json.sub
  ELSE ""

\* C17: applied to a token of three segments whose middle segment carries a
\* subject, extract_user_id_from_jwt returns exactly that subject; applied to
\* a token of one, two or more than three segments, or one whose payload has
\* no subject, it fails and returns no identifier.
C17_SubjectOfMiddleSegment ==
  last.op = "extract_user_id_from_jwt" =>
    IF SubjectOf(last.arg.segments) # ""
    THEN last.ret = [err |-> FALSE, user_id |-> SubjectOf(last.arg.segments)]
    ELSE last.ret = [err |-> TRUE, user_id |-> ""]

C17_Witness ==
  /\ last.op = "extract_user_id_from_jwt"
  /\ Len(last.arg.segments) = 3
  /\ last.arg.form = "full"
  /\ last.ret = [err |-> FALSE, user_id |-> "user_1"]

\* the cookie the requests are meant to carry for a cookie string of the
\* given shape whose token carries the subject user_id
Normalised(arg, user_id) ==
  CASE arg.form = "token" -> CookieName \o "=" \o arg.cookies
    [] arg.form = "named" -> arg.cookies
    [] OTHER -> CookieName \o "=" \o user_id \o "%3A%3A" \o Join(arg.segments, ".")

\* C18: the cookie sent gets the prefix 'WorkosCursorSessionToken=' when it
\* lacks it; when the cookie contains '%3A%3A', the part before the separator
\* is replaced by the user id derived from the token; the cookie sent always
\* starts with the prefix; and normalising a normalised cookie changes nothing.
C18_CookieNormalised ==
  (last.op = "sent_cookie" /\ ~last.ret.err) =>
    /\ last.ret.cookie = Normalised(last.arg, SubjectOf(last.arg.segments))
    /\ StartsWith(last.ret.cookie, CookieName \o "=")
    /\ sent_cookie(last.ret.cookie) = last.ret

C18_Witness ==
  /\ last.op = "sent_cookie"
  /\ last.arg.form = "user"
  /\ ~last.ret.err
  /\ last.ret.cookie # CookieName \o "=" \o last.arg.cookies

(***************************************************************************)
(* What get_trial_usage derives from the three responses, on its own:      *)
(* SpecDerive applies it to responses with and without each field.         *)
(***************************************************************************)
\* the request counts and trial days the endpoints report
Counts == {0, 5}
Limits == {0, 100}
TrialDays == {0, 14}

MeAnswers ==
  { EmptyObject, [email |-> ""], [email |-> "noat"], [email |-> "n@new.io"],
    [email |-> "a@b@c.io"] }

StripeAnswers == {EmptyObject} \cup {[daysRemainingOnTrial |-> d] : d \in TrialDays}

Gpt4Answers ==
  {EmptyObject}
    \cup {[numRequestsTotal |-> u] : u \in Counts}
    \cup {[maxRequestUsage |-> m] : m \in Limits}
    \cup {[numRequestsTotal |-> u, maxRequestUsage |-> m] : u \in Counts, m \in Limits}

UsageAnswers == {EmptyObject} \cup {("gpt-4" :> g) : g \in Gpt4Answers}

\* the three requests have returned
DeriveInput(me, stripe, usage) ==
  /\ last.op = "init"
  /\ last' = [op |-> "responses",
              arg |-> [k \in CallNames |->
                         CASE k = "me" -> me [] k = "stripe" -> stripe
                           [] OTHER -> usage],
              ret |-> None]
  /\ UNCHANGED <<accounts, id_seq, used, now, exported, snapshot, tracked,
                 scope, rvars, xvars>>

\* get_trial_usage from the first future.result() to its return
Derive ==
  /\ last.op = "responses"
  /\ last' = [op |-> "derive", arg |-> last.arg, ret |-> derive(last.arg)]
  /\ UNCHANGED <<accounts, id_seq, used, now, exported, snapshot, tracked,
                 scope, rvars, xvars>>

InitDerive ==
  /\ InitGateway
  /\ scope = [maxId |-> 0, maxClock |-> 0, history |-> FALSE]

NextDerive ==
  \/ \E me \in MeAnswers, stripe \in StripeAnswers, usage \in UsageAnswers :
       DeriveInput(me, stripe, usage)
  \/ Derive

SpecDerive == InitDerive /\ [][NextDerive]_vars

Has(obj, key) == key \in DOMAIN obj

\* the gpt-4 member of the usage response reports a truthy limit
HasLimit(usage) ==
  /\ Has(usage, "gpt-4")
  /\ Has(usage["gpt-4"], "maxRequestUsage")
  /\ usage["gpt-4"].maxRequestUsage # 0

DomainAsClaimed(me) ==
  IF Has(me, "email") /\ Contains(me.email, "@") THEN SplitLast(me.email, "@")
  ELSE Unknown

DaysAsClaimed(stripe) ==
  IF Has(stripe, "daysRemainingOnTrial") THEN ToString(stripe.daysRemainingOnTrial)
  ELSE Unknown

\* the quota with every missing field giving the sentinel
QuotaAsClaimed(usage) ==
  IF HasLimit(usage) /\ Has(usage["gpt-4"], "numRequestsTotal")
  THEN ToString(usage["gpt-4"].numRequestsTotal) \o " / "
         \o ToString(usage["gpt-4"].maxRequestUsage)
  ELSE Unknown

\* the quota with a missing request count counted as 0
QuotaWithZero(usage) ==
  IF ~HasLimit(usage) THEN Unknown
  ELSE IF Has(usage["gpt-4"], "numRequestsTotal")
       THEN QuotaAsClaimed(usage)
       ELSE "0 / " \o ToString(usage["gpt-4"].maxRequestUsage)

\* C19 as stated: domain is the part of the email after '@', quota is
\* '<used> / <max>' when max is truthy and 'unknown' when it is falsy, days is
\* the string form of the trial-days field, and every field missing from a
\* response yields 'unknown'.
C19_EveryMissingFieldUnknown ==
  last.op = "derive" =>
    /\ last.ret.domain = DomainAsClaimed(last.arg["me"])
    /\ last.ret.days = DaysAsClaimed(last.arg["stripe"])
    /\ last.ret.quota = QuotaAsClaimed(last.arg["usage"])

\* C19 amended: as stated, except that a request count missing from the
\* usage response counts as 0, so that the quota is '0 / <max>' when max is
\* truthy; no combination of missing fields makes the derivation fail.
C19_MissingCountIsZero ==
  last.op = "derive" =>
    /\ last.ret.domain = DomainAsClaimed(last.arg["me"])
    /\ last.ret.email = Get(last.arg["me"], "email", Unknown)
    /\ last.ret.days = DaysAsClaimed(last.arg["stripe"])
    /\ last.ret.quota = QuotaWithZero(last.arg["usage"])

C19_Witness ==
  /\ last.op = "derive"
  /\ last.arg["me"] = EmptyObject
  /\ HasLimit(last.arg["usage"])
  /\ ~Has(last.arg["usage"]["gpt-4"], "numRequestsTotal")
  /\ last.ret.quota = "0 / 100"
  /\ last.ret.domain = Unknown

(***************************************************************************)
(* The two statement runners of the gateway on their own: SpecExec calls   *)
(* execute_query and execute_many with statements that succeed and fail.   *)
(***************************************************************************)
ExecMaxId == 2
ExecMaxClock == 2
\* the longest params_list of execute_many
MaxBatch == 2

ExecInserts ==
  { [kind |-> "insert", data |-> d] :
      d \in InsertInputs \cup {[domain |-> "z.io", email |-> "c@z.io", password |-> None]} }

\* the WHERE clauses of the statements: one account, or every account
ExecConditions == { [col |-> "id", val |-> 1], [col |-> "*", val |-> None] }

ExecUpdates ==
  { [kind |-> "update", data |-> d, cond |-> c] :
      d \in {[email |-> "a@x.com"], [password |-> None]}, c \in ExecConditions }

ExecDeletes == { [kind |-> "delete", cond |-> c] : c \in ExecConditions }

\* the params_list of one query: statements of one kind on the same columns
ExecBatches ==
  UNION { {q \in [1..n -> ExecInserts \cup ExecUpdates] :
             \A i \in 1..n : /\ q[i].kind = q[1].kind
                             /\ DOMAIN q[i].data = DOMAIN q[1].data} :
          n \in 1..MaxBatch }

\* what the caller of execute_query or execute_many gets to see
AfterExec(op, stmts, acquired, q, error) ==
  /\ Commit(q.db, {})
  /\ last' = [op |-> op,
              arg |-> [stmts |-> stmts, acquired |-> acquired],
              ret |-> [raised |-> q.raised, error |-> error]]
  /\ UNCHANGED <<exported, snapshot>>

ExecuteQuery(stmt) ==
  AfterExec("execute_query", <<stmt>>, ~PoolExhausted(DB),
            execute_query(DB, stmt), execute_query_error(DB, stmt))

ExecuteMany(stmts) ==
  AfterExec("execute_many", stmts, ~PoolExhausted(DB),
            execute_many(DB, stmts), execute_many(DB, stmts).error)

InitExec ==
  /\ InitGateway
  /\ scope = [maxId |-> ExecMaxId, maxClock |-> ExecMaxClock, history |-> FALSE]

NextExec ==
  \/ \E stmt \in ExecInserts \cup ExecUpdates \cup ExecDeletes : ExecuteQuery(stmt)
  \/ \E stmts \in ExecBatches : ExecuteMany(stmts)

SpecExec == InitExec /\ [][NextExec]_vars

\* a statement of the batch writes NULL into a NOT NULL column
WritesNull(stmts) ==
  \E i \in DOMAIN stmts : \E c \in DOMAIN stmts[i].data :
    c \in {"domain", "email", "password"} /\ stmts[i].data[c] = None

\* a statement of the batch writes an email
WritesEmail(stmts) ==
  \E i \in DOMAIN stmts : "email" \in DOMAIN stmts[i].data

\* C20: when execute_query or execute_many fails after it acquired a
\* connection, the table is as it was before the call (nothing the failed
\* call did is committed), the connection is back in the pool, and the caller
\* gets the exception the driver raised.
C20_FailureRollsBackAndRaises ==
  [][(/\ last'.op \in {"execute_query", "execute_many"}
      /\ last'.arg.acquired
      /\ last'.ret.raised) =>
       /\ accounts' = accounts
       /\ used' = used
       /\ last'.ret.error \in {"NotNullViolation", "UniqueViolation"}
       /\ last'.ret.error = "NotNullViolation" => WritesNull(last'.arg.stmts)
       /\ last'.ret.error = "UniqueViolation" => WritesEmail(last'.arg.stmts)]_vars

C20_Witness ==
  /\ last.op = "execute_many"
  /\ Len(last.arg.stmts) = 2
  /\ last.arg.acquired
  /\ last.ret.raised
  /\ last.ret.error = "UniqueViolation"
  /\ accounts = {}

(***************************************************************************)
(* update and delete: the count they return.                               *)
(***************************************************************************)
\* the rows of the table that satisfy a WHERE clause
Matched(cond) == {r \in accounts : Matches(r, cond)}

\* C21: update and delete return the number of rows they affected; when the
\* condition matches no row they return 0, signal no error and leave the
\* table as it was.
C21_AffectedRowCount ==
  [][/\ last'.op = "delete" =>
          /\ last'.ret = Cardinality(accounts \ accounts')
          /\ accounts' \subseteq accounts
          /\ Matched(last'.arg) = {} => (last'.ret = 0 /\ accounts' = accounts)
     /\ last'.op = "update" =>
          /\ \/ last'.ret = 0 /\ accounts' = accounts
             \/ /\ last'.ret = Cardinality(Matched(last'.arg.cond))
                /\ accounts' = (accounts \ Matched(last'.arg.cond)) \cup
                     {ApplySet(r, last'.arg.data) : r \in Matched(last'.arg.cond)}
          /\ Matched(last'.arg.cond) = {} => last'.ret = 0]_vars

C21_Witness ==
  /\ last.op \in {"update", "delete"}
  /\ accounts # {}
  /\ last.ret = 0
  /\ last.arg = [col |-> "id", val |-> 2]
  /\ \A r \in accounts : r.id # 2

(***************************************************************************)
(* The constructor of the gateway, NeonDB.__init__, as a process.  trace   *)
(* logs its attempts to create the pool and its sleeps, in order.          *)
(***************************************************************************)
\* the largest max_retries a gateway is constructed with
MaxRetries == 3

\* what pool.ThreadedConnectionPool raises when it cannot connect
ConnectErrors ==
  {"OperationalError: timeout", "OperationalError: refused",
   "OperationalError: password authentication failed"}

\* NeonDB(db_url, max_retries=m) is called; url: a database URL is configured
Construct(m, url) ==
  /\ ctor.pc \in {"built", "failed"}
  /\ ctor' = [pc |-> IF url THEN "while" ELSE "failed", max_retries |-> m,
              retry_count |-> 0, last_error |-> None, trace |-> <<>>,
              pool |-> FALSE, raised |-> IF url THEN None ELSE "ValueError"]
  /\ UNCHANGED <<dbvars, rvars, ui_mutation, wall, watcher, backup_records, deletion,
                 silent, writers, background>>

\* while retry_count < self.max_retries, else raise last_error
LoopTest ==
  /\ ctor.pc = "while"
  /\ ctor' = IF ctor.retry_count < ctor.max_retries
             THEN [ctor EXCEPT !.pc = "try"]
             ELSE [ctor EXCEPT !.pc = "failed", !.raised = ctor.last_error]
  /\ UNCHANGED <<dbvars, rvars, ui_mutation, wall, watcher, backup_records, deletion,
                 silent, writers, background>>

\* self.pool = pool.ThreadedConnectionPool(...) returns; return
PoolCreated ==
  /\ ctor.pc = "try"
  /\ ctor' = [ctor EXCEPT !.pc = "built", !.pool = TRUE,
                          !.trace = Append(@, "created")]
  /\ UNCHANGED <<dbvars, rvars, ui_mutation, wall, watcher, backup_records, deletion,
                 silent, writers, background>>

after_failure_NoCount(c, e) ==
  [c EXCEPT !.last_error = e,
            !.trace = Append(@, e),
            !.pc = IF c.retry_count + 1 < c.max_retries THEN "sleep" ELSE "while"]

\* the state of the constructor after the except branch has counted a failure
after_failure(c, e) ==
  [c EXCEPT !.last_error = e,
            !.retry_count = @ + 1,
            !.trace = Append(@, e),
            !.pc = IF c.retry_count + 1 < c.max_retries THEN "sleep" ELSE "while"]

\* pool.ThreadedConnectionPool(...) raises e
PoolFails(e) ==
  /\ ctor.pc = "try"
  /\ ctor' = after_failure(ctor, e)
  /\ UNCHANGED <<dbvars, rvars, ui_mutation, wall, watcher, backup_records, deletion,
                 silent, writers, background>>

\* time.sleep(1)
Sleep ==
  /\ ctor.pc = "sleep"
  /\ ctor' = [ctor EXCEPT !.pc = "while", !.trace = Append(@, "sleep")]
  /\ UNCHANGED <<dbvars, rvars, ui_mutation, wall, watcher, backup_records, deletion,
                 silent, writers, background>>

InitCtor ==
  /\ InitGateway
  /\ scope = [maxId |-> 0, maxClock |-> 0, history |-> FALSE]

NextCtor ==
  \/ \E m \in 1..MaxRetries, url \in BOOLEAN : Construct(m, url)
  \/ LoopTest
  \/ PoolCreated
  \/ \E e \in ConnectErrors : PoolFails(e)
  \/ Sleep

SpecCtor == InitCtor /\ [][NextCtor]_vars

\* every attempt returns or raises, and the constructor takes its steps
SpecCtorFair ==
  /\ SpecCtor
  /\ WF_vars(LoopTest) /\ WF_vars(Sleep)
  /\ WF_vars(PoolCreated \/ \E e \in ConnectErrors : PoolFails(e))

\* the attempts logged in a trace
Attempts(trace) == {i \in DOMAIN trace : trace[i] # "sleep"}

\* in a trace, attempts and sleeps alternate, beginning with an attempt
AlternatesWithSleep(trace) ==
  \A i \in DOMAIN trace : (i % 2 = 0) <=> (trace[i] = "sleep")

\* no more than max_retries attempts, a fixed sleep between two attempts,
\* and no attempt after one that succeeded
CtorBounded ==
  /\ Cardinality(Attempts(ctor.trace)) <= ctor.max_retries
  /\ AlternatesWithSleep(ctor.trace)
  /\ \A i \in DOMAIN ctor.trace :
       ctor.trace[i] = "created" => (i = Len(ctor.trace) /\ ctor.pc = "built")

\* a pool exactly when an attempt succeeded; without one, max_retries
\* attempts have failed and the error of the last one is raised
CtorOutcome ==
  /\ ctor.pc = "built" => (ctor.pool /\ ctor.raised = None)
  /\ (ctor.pc = "failed" /\ ctor.raised # "ValueError") =>
       /\ ~ctor.pool
       /\ Cardinality(Attempts(ctor.trace)) = ctor.max_retries
       /\ ctor.raised = ctor.trace[Len(ctor.trace)]
       /\ ctor.raised \in ConnectErrors

CtorRunning == ctor.pc \notin {"built", "failed"}

\* C22: the constructor tries to create the pool at most max_retries times
\* with a fixed delay between attempts, stops at the first success, after
\* max_retries consecutive failures raises the last connection error and
\* leaves no pool, and always comes to an end.
C22_BoundedRetries ==
  /\ [](CtorBounded /\ CtorOutcome)
  /\ CtorRunning ~> ~CtorRunning

C22_Witness ==
  /\ ctor.pc = "failed"
  /\ ctor.max_retries = 3
  /\ ctor.raised = "OperationalError: refused"
  /\ Len(ctor.trace) = 5
  /\ ctor.trace[1] = "OperationalError: timeout"

(***************************************************************************)
(* Taking connections from the pool: SpecAcquire adds callers that hold    *)
(* connections to the statement runners, up to an exhausted pool.          *)
(***************************************************************************)
\* get_connection(): one call of pool.getconn(); what it raises is logged and
\* re-raised.  calls and sleeps count the calls of getconn and of time.sleep.
acquire(db) ==
  IF PoolExhausted(db)
  THEN [conn |-> FALSE, calls |-> 1, sleeps |-> 0, raised |-> "PoolError"]
  ELSE [conn |-> TRUE, calls |-> 1, sleeps |-> 0, raised |-> None]

\* a caller takes a connection and keeps it
GetConnection ==
  /\ used' = IF acquire(DB).conn THEN get_connection(used) ELSE used
  /\ last' = [op |-> "get_connection", arg |-> [exhausted |-> PoolExhausted(DB)],
              ret |-> acquire(DB)]
  /\ UNCHANGED <<accounts, id_seq, now, exported, snapshot, tracked, scope,
                 rvars, xvars>>

\* a caller gives its connection back
ReleaseConnection ==
  /\ used > 0
  /\ used' = release_connection(used)
  /\ last' = [op |-> "release_connection", arg |-> None, ret |-> None]
  /\ UNCHANGED <<accounts, id_seq, now, exported, snapshot, tracked, scope,
                 rvars, xvars>>

InitAcquire == InitExec

NextAcquire ==
  \/ GetConnection
  \/ ReleaseConnection
  \/ \E stmt \in ExecInserts \cup ExecDeletes : ExecuteQuery(stmt)

SpecAcquire == InitAcquire /\ [][NextAcquire]_vars

\* C23: when the pool has no free connection, acquiring a connection is
\* retried up to the configured bound with a fixed backoff, and only then is
\* the error surfaced to the operation.
C23_AcquireRetriesOnExhaustion ==
  (last.op = "get_connection" /\ last.arg.exhausted /\ last.ret.raised # None) =>
    /\ last.ret.calls = max_retries
    /\ last.ret.sleeps = max_retries - 1

(***************************************************************************)
(* The gateway under failures: SpecFail runs every operation with the pool *)
(* exhausted by callers that hold connections, with statements that break  *)
(* a constraint, with files that cannot be read and files that cannot be   *)
(* written.                                                                *)
(***************************************************************************)
FailMaxId == 2
FailMaxClock == 3

\* export_to_csv(csv_file_path) after get_account_list has returned l, when
\* open(csv_file_path, 'w') or a write raises: the file is as it was, or
\* holds the rows written so far.  io: the file was touched
export_failed(l, old, io, n) ==
  IF l.ret = <<>>
  THEN [db |-> l.db, ret |-> FALSE, file |-> old, io |-> FALSE]
  ELSE [db |-> l.db, ret |-> FALSE, io |-> TRUE,
        file |-> IF io = "open" THEN old ELSE File(SubSeq(ExportAll(l.ret), 1, n))]

AfterExportFails(r, io) ==
  /\ Commit(r.db, {})
  /\ exported' = r.file
  /\ last' = [op |-> "export_to_csv (io error)",
              arg |-> [io |-> io, failed |-> r.io], ret |-> r.ret]
  /\ UNCHANGED snapshot

ExportToCsvFails(io, n) ==
  AfterExportFails(export_failed(get_account_list(DB), exported, io, n), io)

FailAddInputs ==
  { [domain |-> "x.com", email |-> "a@x.com", password |-> "p", quota |-> None],
    [email |-> "a@x.com", password |-> "p"] }

FailFiles ==
  { File(<< <<"DOMAIN", "x.com">>, <<"EMAIL", "a@x.com">>, <<"PASSWORD", "p2">> >>),
    NoFile }

InitFail ==
  /\ InitGateway
  /\ scope = [maxId |-> FailMaxId, maxClock |-> FailMaxClock, history |-> FALSE]

NextFail ==
  \/ GetConnection
  \/ ReleaseConnection
  \/ \E d \in FailAddInputs : AddAccount(d)
  \/ UpdateAccount(1, [quota |-> "5 / 100"])
  \/ \E b \in BOOLEAN :
       Insert([domain |-> "x.com", email |-> "a@x.com", password |-> "p"], b)
  \/ \E c \in Conditions : Update([email |-> "a@x.com"], c)
  \/ \E c \in Conditions : Delete(c)
  \/ GetAccountByEmail("a@x.com")
  \/ GetAccountList
  \/ \E f \in FailFiles : ImportFromCsv(f, "input")
  \/ ExportToCsv
  \/ \E io \in {"open", "write"} : \E n \in 0..1 : ExportToCsvFails(io, n)

SpecFail == InitFail /\ [][NextFail]_vars

\* the statement would store a second account with an email already stored
DupEmail(data) ==
  "email" \in DOMAIN data /\ \E r \in accounts : r.email = data.email

\* the operation that l records met a storage or file error in the state
\* it started from: no free connection, a broken constraint, a file that
\* cannot be opened, a write that fails
MetError(l) ==
  \/ /\ PoolExhausted(DB)
     /\ l.op \in {"insert", "update", "delete", "get_account_list", "add_account",
                  "update_account", "get_account_by_email", "export_to_csv"}
  \/ l.op = "import_from_csv" /\ (~l.arg.file.exists \/ PoolExhausted(DB))
  \/ l.op = "insert" /\ DupEmail(l.arg.data)
  \/ l.op = "add_account" /\ DupEmail(l.arg)
  \/ l.op = "export_to_csv (io error)"

\* the value by which the operation reports a failure: False, None or 0
\* (select's None is the empty sequence here)
FailureSignal(l) ==
  CASE l.op = "insert" -> IF l.arg.return_id THEN l.ret = NoneId ELSE l.ret = FALSE
    [] l.op = "add_account" -> l.ret = NoneId
    [] l.op \in {"update", "delete"} -> l.ret = 0
    [] l.op \in {"get_account_list", "get_account_by_email"} -> l.ret = <<>>
    [] OTHER -> l.ret = FALSE

\* C24: insert, update, delete, select, add_account, update_account,
\* get_account_by_email, import_from_csv and export_to_csv hand no storage or
\* file error to their caller: when one occurs, each returns its failure
\* signal (False, None or 0).
C24_ErrorsBecomeFailureSignals ==
  [][MetError(last') => FailureSignal(last')]_vars

C24_Witness ==
  /\ used = max_conn
  /\ last.op = "import_from_csv"
  /\ last.arg.file.exists
  /\ accounts # {}
  /\ last.ret = FALSE

(***************************************************************************)
(* The silent update, ManageTab.auto_update_info: the loop of the refresh  *)
(* worker over every backup file, without counters and notifications.  The *)
(* counters of the worker stand for its log here.                          *)
(***************************************************************************)
\* update_process of auto_update_info up to the loop
AutoUpdateStart(listing) ==
  /\ pc = "idle"
  /\ silent' = TRUE
  /\ accounts_to_update' =
       [i \in DOMAIN listing |->
          [file |-> listing[i], data |-> parse_csv_file(files, listing[i])]]
  /\ idx' = 1
  /\ success_count' = 0
  /\ failed_count' = 0
  /\ error_messages' = <<>>
  /\ outcome' = <<>>
  /\ notice' = <<>>
  /\ pc' = "loop"
  /\ UNCHANGED <<files, account_tree, selected_item, calls, responses, fetched,
                 raised, before, dbvars, ui_mutation, wall, watcher,
                 backup_records, deletion, ctor, writers, background>>

loop_over_AfterFirst(i, batch) == i > 1

\* the for loop of auto_update_info has no account left
loop_over(i, batch) == i > Len(batch)

\* the loop is over and the thread ends
AutoUpdateEnd ==
  /\ silent
  /\ pc = "loop"
  /\ loop_over(idx, accounts_to_update)
  /\ silent' = FALSE
  /\ pc' = "idle"
  /\ UNCHANGED <<files, account_tree, selected_item, accounts_to_update, idx,
                 success_count, failed_count, error_messages, calls, responses,
                 fetched, raised, before, outcome, notice, dbvars, ui_mutation,
                 wall, watcher, backup_records, deletion, ctor, writers, background>>

\* a step of the worker thread; every request returns or fails (timeout=10)
WorkerStep ==
  \/ BeginAccount
  \/ \E k \in CallNames : \E obj \in Answers(k) : CallReturns(k, obj)
  \/ \E k \in CallNames : CallFails(k)
  \/ Collect
  \/ SetTree
  \/ \E io_ok \in BOOLEAN : WriteCsv(io_ok)
  \/ Tally

InitAuto == InitRefresh

NextAuto ==
  \/ \E f \in Paths : \E rows \in BackupRows(f) : CreateFile(f, rows)
  \/ RefreshList
  \/ \E listing \in Listings(files) : AutoUpdateStart(listing)
  \/ \E listing \in Listings(files) : UpdateProcessStart(listing)
  \/ WorkerStep
  \/ AutoUpdateEnd
  \/ Report
  \/ Dismiss

SpecAuto == InitAuto /\ [][NextAuto]_vars

\* the steps the silent update still has to take, at most: ten for every
\* account not yet begun, and those left for the account in progress
StepsLeft ==
  (Len(accounts_to_update) + 1 - idx) * 10 +
    CASE pc = "loop" -> 9
      [] pc = "fetch" -> 5 + Cardinality({k \in CallNames : calls[k] = "pending"})
      [] pc = "set_tree" -> 4
      [] pc = "write_csv" -> 3
      [] pc = "tally" -> 1
      [] OTHER -> 0

\* the worker thread took a step
WorkerMoved == <<pc, idx, calls>>' # <<pc, idx, calls>>

\* C25: in the silent update a failure of one account is only logged: no
\* notification is raised, the remaining accounts are still processed, and
\* the thread always runs to its end (it is never at a point without a next
\* step, and every step leaves fewer steps to take).
C25_SilentUpdateSwallowsFailures ==
  /\ [](silent => /\ notice = <<>>
                  /\ pc \in {"loop", "fetch", "set_tree", "write_csv", "tally"}
                  /\ idx <= Len(accounts_to_update) + 1
                  /\ StepsLeft >= 0)
  /\ [][(silent /\ silent' /\ WorkerMoved) => StepsLeft' < StepsLeft]_vars
  /\ [][(silent /\ ~silent') =>
          /\ Len(outcome) = Len(accounts_to_update)
          /\ \A i \in DOMAIN outcome : outcome[i].file = accounts_to_update[i].file
          /\ notice' = <<>>]_vars

C25_Witness ==
  /\ ~silent
  /\ pc = "idle"
  /\ Len(outcome) = 2
  /\ outcome[1].raised # ""
  /\ outcome[2].raised = ""
  /\ notice = <<>>

(***************************************************************************)
(* Two refreshes of the same account inside update_csv_file at the same    *)
(* time.  The file is read as a whole; open(csv_file, 'w') empties it; the *)
(* rows are written from its start when the file object is closed.         *)
(***************************************************************************)
RaceFile == Path(1)

\* the quota and the days a refresh can have fetched
RaceFetched == {<<"5 / 100", "14">>, <<"6 / 100", "13">>, <<"7 / 100", "13">>}

\* the keyword arguments of update_csv_file in a refresh that fetched got
WritebackFields(got) ==
  << <<"DOMAIN", "new.io">>, <<"EMAIL", "n@new.io">>, <<"PASSWORD", "p">>,
     <<"QUOTA", got[1]>>, <<"DAYS", got[2]>>,
     <<"COOKIES_STR", "WorkosCursorSessionToken=user_1%3A%3Ah.cGwx.s">> >>

\* the thread w enters update_csv_file for the file
WbBegin(w, got) ==
  /\ writers[w].pc = "idle"
  /\ RaceFile \in DOMAIN files
  /\ writers' = [writers EXCEPT ![w].pc = "read",
                                ![w].fields = WritebackFields(got)]
  /\ UNCHANGED <<dbvars, rvars, ui_mutation, wall, watcher, backup_records,
                 deletion, ctor, silent, background>>

\* rows = list(csv_reader), and the loop over fields_to_update
WbRead(w) ==
  /\ writers[w].pc = "read"
  /\ writers' = [writers EXCEPT
                   ![w].pc = "open",
                   ![w].rows = update_csv_file(files[RaceFile], writers[w].fields)]
  /\ UNCHANGED <<dbvars, rvars, ui_mutation, wall, watcher, backup_records,
                 deletion, ctor, silent, background>>

\* open(csv_file, 'w'): the file is truncated
WbOpen(w) ==
  /\ writers[w].pc = "open"
  /\ writers' = [writers EXCEPT ![w].pc = "write"]
  /\ files' = [files EXCEPT ![RaceFile] = <<>>]
  /\ UNCHANGED <<account_tree, selected_item, pc, accounts_to_update, idx,
                 success_count, failed_count, error_messages, calls, responses,
                 fetched, raised, before, outcome, notice, dbvars, ui_mutation,
                 wall, watcher, backup_records, deletion, ctor, silent, background>>

\* rows written from the start of a file that holds old: what lies behind
\* the written rows stays
Overwrite(old, rows) == rows \o SubSeq(old, Len(rows) + 1, Len(old))

\* csv_writer.writerows(rows) and the close of the file
WbWrite(w) ==
  /\ writers[w].pc = "write"
  /\ writers' = [writers EXCEPT ![w].pc = "done"]
  /\ files' = [files EXCEPT ![RaceFile] = Overwrite(@, writers[w].rows)]
  /\ UNCHANGED <<account_tree, selected_item, pc, accounts_to_update, idx,
                 success_count, failed_count, error_messages, calls, responses,
                 fetched, raised, before, outcome, notice, dbvars, ui_mutation,
                 wall, watcher, backup_records, deletion, ctor, silent, background>>

InitRace == InitRefresh

NextRace ==
  \/ \E rows \in BackupRows(RaceFile) : CreateFile(RaceFile, rows)
  \/ \E w \in Writers, got \in RaceFetched : WbBegin(w, got)
  \/ \E w \in Writers : WbRead(w)
  \/ \E w \in Writers : WbOpen(w)
  \/ \E w \in Writers : WbWrite(w)

SpecRace == InitRace /\ [][NextRace]_vars

\* the file after the complete writeback of w, alone or after the other's
CompleteWritebacks(w) ==
  { update_csv_file(base, writers[w].fields) :
      base \in BackupRows(RaceFile) \cup
               { update_csv_file(b, writers[v].fields) :
                   b \in BackupRows(RaceFile), v \in Writers } }

\* C26: when two refreshes of the same account have both finished, the
\* backup file is the complete writeback of one of them: no row is lost,
\* duplicated or mixed between the two writers.
C26_LastWriteWins ==
  (\A w \in Writers : writers[w].pc = "done") =>
     \E w \in Writers : files[RaceFile] \in CompleteWritebacks(w)

(***************************************************************************)
(* The displayed row and the backup file after a refresh, checked under    *)
(* SpecRefresh.                                                            *)
(***************************************************************************)
DisplayedValues(f) ==
  [domain |-> account_tree[f].domain, email |-> account_tree[f].email,
   quota |-> account_tree[f].quota, days |-> account_tree[f].days]

StoredValues(f) ==
  LET account_data == parse_csv_file(files, f)
  IN [domain |-> account_data.DOMAIN, email |-> account_data.EMAIL,
      quota |-> account_data.QUOTA, days |-> account_data.DAYS]

RefreshEnded ==
  /\ pc = "tally"
  /\ current.file \in DOMAIN account_tree
  /\ current.file \in DOMAIN files

\* C27: when writing the backup file fails during the refresh of an account,
\* the refresh has failed and the displayed row of the account shows the
\* values it had before; after any refresh, successful or failed, the
\* displayed row and the backup file agree on domain, email, quota and
\* days-remaining.
C27_RowAgreesWithFile ==
  RefreshEnded =>
    /\ raised = "csv" => account_tree[current.file] = before.item
    /\ DisplayedValues(current.file) = StoredValues(current.file)

(***************************************************************************)
(* update_csv_file as a whole, applied to files and keyword arguments of   *)
(* every shape.                                                            *)
(***************************************************************************)
MaxFields == 2

\* the files: with and without header, a key twice, a line with one cell, a
\* line with three cells
CsvFiles ==
  { <<>>,
    <<Header>>,
    <<Header, <<"QUOTA", "1 / 50">>, <<"DAYS", "3">> >>,
    <<Header, <<"DAYS", "3">>, <<"QUOTA", "1 / 50">>, <<"DAYS", "4">> >>,
    <<Header, <<"QUOTA">>, <<"QUOTA", "1 / 50">>, <<"EMAIL", "a@x.com">> >>,
    <<Header, <<"EMAIL", "a@x.com">>, <<"DAYS", "3", "x">>, <<"DAYS", "5">> >>,
    << <<"DAYS", "3">>, <<"EMAIL", "a@x.com">> >>,
    <<Header, <<"API_KEY", "k">>, <<"QUOTA", "">>, <<"QUOTA", "2 / 50">> >> }

CsvKeys == {"QUOTA", "DAYS", "DOMAIN"}

CsvValues == {"7 / 100", ""}

\* the keyword arguments: no key twice
CsvFields ==
  UNION { { fs \in [1..n -> CsvKeys \X CsvValues] :
              \A i, j \in 1..n : fs[i][1] = fs[j][1] => i = j } : n \in 0..MaxFields }

\* update_csv_file(csv_file, **fields_to_update) on a readable and writable
\* file with the rows given: whether it opened the file for reading and for
\* writing, and the rows the file holds afterwards
update_csv_file_io(rows, fields) ==
  IF Len(fields) = 0
  THEN [read |-> FALSE, wrote |-> FALSE, rows |-> rows]
  ELSE [read |-> TRUE, wrote |-> TRUE, rows |-> update_csv_file(rows, fields)]

\* a call of update_csv_file is about to be made
CsvInput(rows, fields) ==
  /\ last.op = "init"
  /\ last' = [op |-> "file", arg |-> [rows |-> rows, fields |-> fields], ret |-> None]
  /\ UNCHANGED <<accounts, id_seq, used, now, exported, snapshot, tracked,
                 scope, rvars, xvars>>

UpdateCsvFile ==
  /\ last.op = "file"
  /\ last' = [op |-> "update_csv_file", arg |-> last.arg,
              ret |-> update_csv_file_io(last.arg.rows, last.arg.fields)]
  /\ UNCHANGED <<accounts, id_seq, used, now, exported, snapshot, tracked,
                 scope, rvars, xvars>>

InitCsv == InitDerive

NextCsv ==
  \/ \E rows \in CsvFiles, fields \in CsvFields : CsvInput(rows, fields)
  \/ UpdateCsvFile

SpecCsv == InitCsv /\ [][NextCsv]_vars

\* the first row of rows that has the key and a value cell; 0 when none has
FirstRowOf(rows, key) ==
  LET at == {i \in 1..Len(rows) : Len(rows[i]) >= 2 /\ rows[i][1] = key}
  IN IF at = {} THEN 0 ELSE CHOOSE i \in at : \A j \in at : i <= j

\* the named fields that had no row, in the order they were named
FieldsWithoutRow(rows, fields) ==
  LET absent(kv) == FirstRowOf(rows, kv[1]) = 0
  IN SelectSeq(fields, absent)

\* C28: update_csv_file changes only the value cell of the first row whose
\* key equals a named field, appends one row for each named field that had
\* no row, and leaves every other row, the header row included, unchanged
\* and in place; called with no fields it neither reads nor writes the file.
C28_OnlyNamedFieldsChange ==
  last.op = "update_csv_file" =>
    LET old    == last.arg.rows
        fields == last.arg.fields
        new    == last.ret.rows
        named  == {i \in 1..Len(fields) : FirstRowOf(old, fields[i][1]) # 0}
        hit(r) == {i \in named : FirstRowOf(old, fields[i][1]) = r}
    IN IF Len(fields) = 0
       THEN ~last.ret.read /\ ~last.ret.wrote /\ new = old
       ELSE /\ last.ret.read /\ last.ret.wrote
            /\ Len(new) = Len(old) + Len(FieldsWithoutRow(old, fields))
            /\ \A r \in 1..Len(old) :
                 IF hit(r) = {} THEN new[r] = old[r]
                 ELSE \A i \in hit(r) :
                        new[r] = [old[r] EXCEPT ![2] = fields[i][2]]
            /\ SubSeq(new, Len(old) + 1, Len(new)) = FieldsWithoutRow(old, fields)

\* a call that changed the first of two DAYS rows and appended a DOMAIN row
C28_Witness ==
  /\ last.op = "update_csv_file"
  /\ last.arg.rows = <<Header, <<"DAYS", "3">>, <<"QUOTA", "1 / 50">>, <<"DAYS", "4">> >>
  /\ last.arg.fields = << <<"DAYS", "">>, <<"DOMAIN", "7 / 100">> >>
  /\ last.ret.rows = <<Header, <<"DAYS", "">>, <<"QUOTA", "1 / 50">>, <<"DAYS", "4">>,
                       <<"DOMAIN", "7 / 100">> >>

(***************************************************************************)
(* The background actions and their loading indicator.  Each thread hands  *)
(* callbacks to the main loop with after(0, ...); the main loop runs them  *)
(* in the order they were handed over.  What the thread does in between    *)
(* (requests, database, files, browser) returns or raises.                 *)
(***************************************************************************)
\* the background actions the user starts in one run
MaxThreads == 1

\* how the try block of a thread can end:
\*   "ok"            it ran to its end
\*   "refused"       the operation reported failure without raising
\*   "raised"        an exception before the try block's close_loading
\*   "raised_after"  an exception after the try block's close_loading
TryOutcomes(a) ==
  CASE a = "update_info"    -> {"ok", "raised", "raised_after"}
    [] a = "switch_account" -> {"ok", "refused", "raised", "raised_after"}
    [] a = "delete_account" -> {"ok", "raised", "raised_after"}
    [] a = "reset_id"       -> {"ok", "refused", "raised"}
    [] a = "generate"       -> {"ok", "refused", "raised"}
    [] a = "register"       -> {"ok", "refused", "raised"}
    [] OTHER                -> {"ok", "raised"}

\* the try block reached its own close_loading
try_closes(a, o) ==
  CASE o = "ok"           -> TRUE
    [] o = "raised_after" -> TRUE
    [] o = "raised"       -> FALSE
    [] OTHER              -> a \in {"switch_account", "reset_id", "register"}

\* the try block ended in the except clause: switch_account raises on a
\* refused result after closing, generate raises on a refused result
\* before closing, reset_id returns, register shows a warning
try_raises(a, o) ==
  CASE o = "ok"           -> FALSE
    [] o = "raised_after" -> TRUE
    [] o = "raised"       -> TRUE
    [] OTHER              -> a \in {"switch_account", "generate"}

except_clause_NoClose(a) == <<"show_error">>

\* the callbacks the except clause hands over
except_clause(a) == <<"close_loading", "show_error">>

\* thread a hands the callbacks to the main loop, in this order
Schedule(a, callbacks) ==
  [background EXCEPT !.queue = @ \o [i \in 1..Len(callbacks) |-> <<callbacks[i], a>>],
                     !.scheduled[a] = @ \o callbacks]

\* the user starts a background action: threading.Thread(...).start()
StartAction(a) ==
  /\ a \in BackgroundActions
  /\ background.pc[a] = "idle"
  /\ background.started < MaxThreads
  /\ background' = [background EXCEPT !.pc[a] = "started", !.started = @ + 1]
  /\ UNCHANGED <<dbvars, rvars, ui_mutation, wall, watcher, backup_records,
                 deletion, ctor, silent, writers>>

\* the first statement of the thread: after(0, lambda: UI.show_loading(...))
ScheduleShow(a) ==
  /\ background.pc[a] = "started"
  /\ background' = [Schedule(a, <<"show_loading">>) EXCEPT !.pc[a] = "try"]
  /\ UNCHANGED <<dbvars, rvars, ui_mutation, wall, watcher, backup_records,
                 deletion, ctor, silent, writers>>

\* the rest of the try block, ending as o; a registration that succeeded
\* starts the backup thread
TryBlock(a, o) ==
  /\ background.pc[a] = "try"
  /\ o \in TryOutcomes(a)
  /\ LET after_try == Schedule(a, IF try_closes(a, o)
                                  THEN <<"close_loading">> ELSE <<>>)
         chained   == a = "register" /\ o = "ok"
     IN background' =
          [after_try EXCEPT
             !.pc = [t \in Threads |->
                       IF t = a THEN (IF try_raises(a, o) THEN "except" ELSE "done")
                       ELSE IF chained /\ t = "backup_after_register" THEN "started"
                       ELSE @[t]]]
  /\ UNCHANGED <<dbvars, rvars, ui_mutation, wall, watcher, backup_records,
                 deletion, ctor, silent, writers>>

\* except Exception as e: close_loading and show_error are handed over
ExceptClause(a) ==
  /\ background.pc[a] = "except"
  /\ background' = [Schedule(a, except_clause(a)) EXCEPT !.pc[a] = "done"]
  /\ UNCHANGED <<dbvars, rvars, ui_mutation, wall, watcher, backup_records,
                 deletion, ctor, silent, writers>>

\* the main loop runs the callback that was handed over first
RunCallback ==
  /\ background.queue # <<>>
  /\ LET cb == Head(background.queue)
         a  == cb[2]
     IN background' =
          [background EXCEPT
             !.queue = Tail(@),
             !.loading[a] =
                CASE cb[1] = "show_loading" -> "open"
                  [] cb[1] = "close_loading" /\ @ = "open" -> "closed"
                  [] OTHER -> @]
  /\ UNCHANGED <<dbvars, rvars, ui_mutation, wall, watcher, backup_records,
                 deletion, ctor, silent, writers>>

InitBackground == InitRefresh

NextBackground ==
  \/ \E a \in BackgroundActions : StartAction(a)
  \/ \E a \in Threads : ScheduleShow(a)
  \/ \E a \in Threads, o \in {"ok", "refused", "raised", "raised_after"} : TryBlock(a, o)
  \/ \E a \in Threads : ExceptClause(a)
  \/ RunCallback

SpecBackground == InitBackground /\ [][NextBackground]_vars

\* the threads run on and the main loop keeps running callbacks
SpecBackgroundFair ==
  /\ SpecBackground
  /\ WF_background(RunCallback)
  /\ \A a \in Threads :
       /\ WF_background(\E o \in TryOutcomes(a) : TryBlock(a, o))
       /\ WF_background(ExceptClause(a))

\* the positions of the callbacks of kind k among the callbacks thread a
\* has handed over so far
ScheduledAt(k, a) ==
  {i \in 1..Len(background.scheduled[a]) : background.scheduled[a][i] = k}

ThreadEnded(a) == background.pc[a] = "done"

\* every close_loading of a thread was handed over after its show_loading,
\* and a thread that has ended has handed over a close_loading
CloseScheduledAfterShow ==
  \A a \in Threads :
    /\ \A c \in ScheduledAt("close_loading", a) :
         \E sh \in ScheduledAt("show_loading", a) : sh < c
    /\ ThreadEnded(a) => ScheduledAt("close_loading", a) # {}

\* C29: for every background action, on the success path and on every
\* failure path, the close of the loading indicator is scheduled after its
\* show, and each loading indicator that is shown is eventually closed.
C29_LoadingEventuallyClosed ==
  /\ []CloseScheduledAfterShow
  /\ \A a \in Threads :
       (background.loading[a] = "open") ~> (background.loading[a] = "closed")

\* the registration has succeeded and the backup it started has failed in
\* its except clause; both indicators were open and are closed
C29_Witness ==
  /\ background.pc["register"] = "done"
  /\ background.pc["backup_after_register"] = "done"
  /\ ScheduledAt("show_error", "backup_after_register") # {}
  /\ background.loading["register"] = "closed"
  /\ background.loading["backup_after_register"] = "closed"

(***************************************************************************)
(* import_from_csv of a file whose email is already stored, checked under  *)
(* Spec.                                                                   *)
(***************************************************************************)
\* the stored accounts with the email of the file
StoredWithEmailOf(file) ==
  IF file.exists
  THEN {r \in accounts : r.email = ImportedAccount(file.rows).email}
  ELSE {}

====
